---- MODULE Spec2Model ----
(***************************************************************************)
(* Model of the story-generation pipeline of enterprise_ai_demo1_websearch *)
(* (src/search_service.py, src/client.py, src/parser.py, src/models.py,    *)
(* src/main.py).                                                           *)
(*                                                                         *)
(* Specifications:                                                         *)
(*   Spec       one generate_story call on a base directory                *)
(*   SpecSerial callers of _get_next_story_folder, one after another       *)
(*   SpecRace   overlapping invocations of _get_next_story_folder          *)
(*   SpecResult the derived properties of StoryResult on arbitrary scenes  *)
(*   SpecImage  generate_image and generate_and_save calls, one after      *)
(*              another, with the client's error handling and the parser   *)
(*   SpecPrompt validate_prompt on arbitrary prompts                       *)
(*   SpecParse  ImageResponseParser.parse on arbitrary responses           *)
(*   SpecName   _generate_safe_filename on arbitrary prompts               *)
(*   SpecMain   one run of the command line entry point main               *)
(***************************************************************************)
EXTENDS Integers, Sequences, FiniteSets, TLC

\* ---------------------------------------------------------------- bounds
MaxScenes == 2        \* num_scenes ranges over 0..MaxScenes
MaxUpstream == 3      \* length of the scene list the chat model returns
MaxPre == 2           \* story_1..story_MaxPre may exist before the first run
MaxAllocs == 3        \* invocations of _get_next_story_folder (SpecSerial, SpecRace)
MaxResultScenes == 6  \* length of the scene list of a StoryResult (SpecResult)
MaxPromptText == 3    \* prompts of up to this length are enumerated in full (SpecPrompt)
MaxRequests == 2      \* generate_image calls made one after another (SpecImage)
MaxEntries == 1       \* length of the "data" value of a response
MaxNameText == 3      \* prompts of up to this length are enumerated in full (SpecName)

\* ---------------------------------------------------------------- values
None == "None"
NoPath == <<0, <<"none", 0>>>>                  \* file_path / audio_file_path = None
NoError == [type |-> None, code |-> None]     \* no exception
Procs == {1, 2}
\* no generate_image call in progress; save_dir 0 is "generated_images" itself,
\* save_path is the argument of generate_and_save (NoPath = generate_image called)
NoRequest == [prompt |-> <<>>, auto_save |-> FALSE, save_dir |-> 0, save_path |-> NoPath]
\* response.get("created") when the key is absent
NoTimestamp == [type |-> "NoneType", value |-> None]
\* image_data.get("url"), .get("b64_json") of an entry without those keys
NoEntry == [type |-> "dict", url |-> "missing", b64_json |-> "missing"]
\* main has not parsed its arguments
NoArgs == [argv |-> None]
\* self.client.images.generate raised nothing
NoFailure == [class |-> None, text |-> <<>>]
\* no response received yet
NoResponse == [type |-> None, has_data |-> FALSE,
               data |-> [type |-> "NoneType", len |-> 0, first |-> NoEntry],
               created |-> NoTimestamp]

VARIABLES
    pc,            \* position of the generate_story call
    opts,          \* story_options
    story_data,    \* what the chat completion returned to decompose_story
    scenes,        \* the list returned by decompose_story, mutated in place
    story_folder,  \* local story_folder of generate_story (0 = None)
    idx,           \* loop variable i of the per-scene loop
    cur,           \* local `result` of the generate_image call in progress
    err,           \* the error raised by generate_story (NoError = none)
    story_result,  \* <<the StoryResult returned>> (<<>> = nothing returned)
    dirs,          \* numbers N such that base_dir/story_N exists
    files,         \* files on disk, as [dir, name] records
    apc,           \* position of each _get_next_story_folder invocation
    story_num,     \* its local story_num
    ret,           \* the folder number it returned (0 = nothing returned)
    nextId,        \* 1 + the number of distinct generation ids drawn so far
    calls,         \* number of _get_next_story_folder invocations started
    dirs0,         \* history: the folders that existed when each invocation started
    aerr,          \* the exception it raised (None = none)
    allocated,     \* history: folder numbers returned so far, in order
    log,           \* history: calls made by the current run, in order
    res,           \* SpecResult: <<the StoryResult under inspection>>
    request,       \* arguments of the generate_image call in progress
    raw_response,  \* what client.generate_image returned to it
    issued,        \* history: the generation ids the parser has given out
    requests,      \* number of generate_image calls made so far
    api_error,     \* what self.client.images.generate raised (NoFailure = nothing)
    safe_filename, \* SpecName: the name _generate_safe_filename returned
    args,          \* the argparse.Namespace main works on
    exit_code      \* <<exit status of the process>> (<<>> = main still running)

vars == <<pc, opts, story_data, scenes, story_folder, idx, cur, err, story_result, dirs,
          files, apc, story_num, ret, aerr, nextId, calls, dirs0, allocated, log, res,
          request, raw_response, issued, requests, api_error, safe_filename, args,
          exit_code>>

storyVars == <<pc, opts, story_data, scenes, story_folder, idx, cur, err, story_result,
               nextId, log>>
allocVars == <<apc, story_num, ret, aerr, allocated, calls, dirs0>>
fsVars == <<dirs, files>>
imageVars == <<request, raw_response, issued, requests, api_error, safe_filename>>
mainVars == <<args, exit_code>>

\* ------------------------------------------------------------ models.py
\* StoryScene(scene_number, narrative, image_prompt): text is kept as its
\* origin, an upstream entry (src = its position) or a placeholder (src = 0).
\* ImageResult as built by the parser: file_path unset, image_data only
\* when a base64 payload was decoded.
ImageResult(hasUrl, hasData, id) ==
    [image_url |-> hasUrl, image_data |-> hasData, file_path |-> NoPath,
     generation_id |-> id]

\* image_result = None (generation ids start at 1)
NoResult == ImageResult(FALSE, FALSE, 0)

StoryScene(n, origin, src) ==
    [scene_number |-> n, origin |-> origin, src |-> src,
     image_result |-> NoResult, audio_file_path |-> NoPath]

is_generated(scene) == scene.image_result # NoResult

completed_scenes(ss) == SelectSeq(ss, LAMBDA sc : is_generated(sc))

failed_scenes(ss) == SelectSeq(ss, LAMBDA sc : ~is_generated(sc))

\* ------------------------------------------------ IEEE-754 binary64 values
\* success_rate is a Python float.  A non-negative double is kept as its
\* 53-bit significand m (most significant bit first, m[1] = 1) and the
\* exponent e of its last bit: value = m * 2^e.  0.0 has the empty significand.
Precision == 53
FracBits == 64        \* quotient bits produced before rounding

FZero == [m |-> <<>>, e |-> 0]

RECURSIVE NatBits(_)
NatBits(n) == IF n = 0 THEN <<>> ELSE Append(NatBits(n \div 2), n % 2)

\* the w low bits of n, most significant first
FixedBits(n, w) == [j \in 1..w |-> (n \div (2 ^ (w - j))) % 2]

RECURSIVE BitsToNat(_)
BitsToNat(b) ==
    IF b = <<>> THEN 0 ELSE 2 * BitsToNat(SubSeq(b, 1, Len(b) - 1)) + b[Len(b)]

StripZeros(b) ==
    IF \A j \in 1..Len(b) : b[j] = 0 THEN <<>>
    ELSE LET first == CHOOSE j \in 1..Len(b) :
                          b[j] = 1 /\ \A h \in 1..(j - 1) : b[h] = 0
         IN  SubSeq(b, first, Len(b))

Zeros(n) == [j \in 1..n |-> 0]

\* b + 1 on a bit string; the result is one bit longer on carry-out.
Inc(b) ==
    IF \A j \in 1..Len(b) : b[j] = 1 THEN <<1>> \o Zeros(Len(b))
    ELSE LET last == CHOOSE j \in 1..Len(b) :
                         b[j] = 0 /\ \A h \in (j + 1)..Len(b) : b[h] = 1
         IN  [j \in 1..Len(b) |-> IF j < last THEN b[j]
                                  ELSE IF j = last THEN 1 ELSE 0]

\* b * k + carry for a small k, LimbBits bits at a time from the low end.
LimbBits == 12

RECURSIVE MulSmallFrom(_, _, _)
MulSmallFrom(b, k, carry) ==
    IF b = <<>> THEN NatBits(carry)
    ELSE LET w == IF Len(b) < LimbBits THEN Len(b) ELSE LimbBits
             d == BitsToNat(SubSeq(b, Len(b) - w + 1, Len(b))) * k + carry
         IN  MulSmallFrom(SubSeq(b, 1, Len(b) - w), k, d \div (2 ^ w))
                 \o FixedBits(d % (2 ^ w), w)

\* Round-to-nearest-even of (bits * 2^e, plus a non-zero tail when sticky).
RoundNearestEven(bits, e, sticky) ==
    LET b == StripZeros(bits)
        n == Len(b)
    IN  IF n = 0 THEN FZero
        ELSE IF n <= Precision
             THEN [m |-> b \o Zeros(Precision - n), e |-> e - (Precision - n)]
        ELSE LET kept == SubSeq(b, 1, Precision)
                 guard == b[Precision + 1]
                 tail == \E j \in (Precision + 2)..n : b[j] = 1
                 up == guard = 1 /\ (sticky \/ tail \/ kept[Precision] = 1)
                 r == IF up THEN Inc(kept) ELSE kept
             IN  IF Len(r) > Precision
                 THEN [m |-> SubSeq(r, 1, Precision), e |-> e + (n - Precision) + 1]
                 ELSE [m |-> r, e |-> e + (n - Precision)]

FromInt(n) == RoundNearestEven(NatBits(n), 0, FALSE)

\* 2^k mod t by repeated squaring
RECURSIVE Pow2Mod(_, _)
Pow2Mod(k, t) ==
    IF k = 0 THEN 1 % t
    ELSE LET h == Pow2Mod(k \div 2, t)
         IN  (h * h * (IF k % 2 = 1 THEN 2 ELSE 1)) % t

\* the remainder of long division of r by t after k quotient bits
DivRem(r, t, k) == (r * Pow2Mod(k, t)) % t

\* the first k fractional quotient bits of r / t (r < t)
LongDiv(r, t, k) ==
    [j \in 1..k |-> IF 2 * DivRem(r, t, j - 1) >= t THEN 1 ELSE 0]

\* Python's int / int (true division, correctly rounded), t > 0
FDivInt(c, t) ==
    RoundNearestEven(NatBits(c \div t) \o LongDiv(c % t, t, FracBits),
                     0 - FracBits, DivRem(c % t, t, FracBits) # 0)

\* Python's float * int for a small int
FMulInt(f, k) ==
    IF f = FZero \/ k = 0 THEN FZero
    ELSE RoundNearestEven(MulSmallFrom(f.m, k, 0), f.e, FALSE)

\* the next double above f
FSucc(f) == IF f = FZero THEN FZero ELSE RoundNearestEven(Inc(f.m), f.e, FALSE)

\* mutant: the rate of the failed scenes
success_rate_of_failed(ss) ==
    IF ss = <<>> THEN FZero
    ELSE FMulInt(FDivInt(Len(failed_scenes(ss)), Len(ss)), 100)

\* StoryResult.success_rate
success_rate(ss) ==
    IF ss = <<>> THEN FZero
    ELSE FMulInt(FDivInt(Len(completed_scenes(ss)), Len(ss)), 100)

\* ImageError(code, message): only the code is kept.
ImageError(code) == [type |-> "ImageError", code |-> code]

\* any exception that is not an ImageError
OtherError(type) == [type |-> type, code |-> None]

\* a call or its end, for the history: the scene, the save directory, the outcome
Event(op, scene, dir, out) == [op |-> op, scene |-> scene, dir |-> dir, out |-> out]

\* ------------------------------------------------------------ client.py
\* What the chat-completion call of decompose_story can produce: the call
\* itself raises, the reply is not JSON, the JSON is neither a list nor an
\* object with a "scenes" key, an entry of the list is not an object, or a
\* list of len scene objects (bare or under "scenes").
ReplyKinds == {"call_failed", "bad_json", "bad_format", "bad_entry",
               "array", "scenes_key"}

Replies == [kind : ReplyKinds, len : 0..MaxUpstream]

NoReply == [kind |-> None, len |-> 0]

Min(a, b) == IF a < b THEN a ELSE b

\* mutant: the upstream list is not cut to num_scenes
UpstreamScenes_unsliced(num, len) ==
    [i \in 1..len |-> StoryScene(i, "upstream", i)]

\* len(scene_list[:num_scenes]): a negative stop counts from the end
SliceLen(num, len) ==
    IF num >= 0 THEN Min(num, len)
    ELSE IF len + num > 0 THEN len + num ELSE 0

\* for i, scene_data in enumerate(scene_list[:num_scenes])
UpstreamScenes(num, len) ==
    [i \in 1..SliceLen(num, len) |-> StoryScene(i, "upstream", i)]

\* mutant: placeholders numbered from len(scenes), not len(scenes) + 1
RECURSIVE PadScenes_zero_based(_, _)
PadScenes_zero_based(ss, num) ==
    IF Len(ss) < num
    THEN PadScenes_zero_based(Append(ss, StoryScene(Len(ss), "placeholder", 0)), num)
    ELSE ss

\* while len(scenes) < num_scenes: scenes.append(StoryScene(len(scenes) + 1, ...))
RECURSIVE PadScenes(_, _)
PadScenes(ss, num) ==
    IF Len(ss) < num
    THEN PadScenes(Append(ss, StoryScene(Len(ss) + 1, "placeholder", 0)), num)
    ELSE ss

\* ImageGenerationClient.decompose_story: [error, scenes].  `import json`
\* sits inside the try block after the chat call, so when the call itself
\* raises, evaluating `except json.JSONDecodeError` raises UnboundLocalError.
decompose_story(num, reply) ==
    CASE reply.kind = "call_failed" ->
             [error |-> OtherError("UnboundLocalError"), scenes |-> <<>>]
      [] reply.kind = "bad_json" ->
             [error |-> ImageError("STORY_PARSING_ERROR"), scenes |-> <<>>]
      [] reply.kind = "bad_format" ->
             [error |-> ImageError("STORY_PARSING_ERROR"), scenes |-> <<>>]
      [] reply.kind = "bad_entry" /\ SliceLen(num, reply.len) > 0 ->
             [error |-> ImageError("STORY_DECOMPOSITION_ERROR"), scenes |-> <<>>]
      [] OTHER ->
             [error |-> NoError,
              scenes |-> PadScenes(UpstreamScenes(num, reply.len), num)]

\* ---------------------------------------------------- search_service.py
\* mutant: os.makedirs without exist_ok=True
makedirs_exist_not_ok(exists) ==
    IF exists THEN {"FileExistsError"} ELSE {"ok", "OSError"}

\* Outcomes of os.makedirs(path, exist_ok=True): it can fail with OSError
\* (permissions, disk), but not because the directory already exists.
makedirs_exist_ok(exists) == {"ok", "OSError"}

\* mutant: numbering continues after the number of existing folders
InitialStoryNum_from_count == Cardinality(dirs) + 1

\* story_num = 1
InitialStoryNum == 1

\* mutant: the existence test is skipped
PathExists_never(n) == FALSE

\* os.path.exists(os.path.join(base_dir, f"story_{n}"))
PathExists(n) == n \in dirs

\* _get_next_story_folder(base_dir) is entered by p
Invoke(p) ==
    /\ apc' = [apc EXCEPT ![p] = "base"]
    /\ story_num' = [story_num EXCEPT ![p] = 0]
    /\ ret' = [ret EXCEPT ![p] = 0]
    /\ aerr' = [aerr EXCEPT ![p] = None]
    /\ dirs0' = [dirs0 EXCEPT ![p] = dirs]
    /\ calls' = calls + 1
    /\ UNCHANGED allocated

\* _get_next_story_folder, one step per file-system call.
\* os.makedirs(base_dir, exist_ok=True); story_num = 1
AllocBase(p) ==
    /\ apc[p] = "base"
    /\ \E out \in makedirs_exist_ok(dirs # {}) :
          IF out = "ok"
          THEN /\ apc' = [apc EXCEPT ![p] = "check"]
               /\ story_num' = [story_num EXCEPT ![p] = InitialStoryNum]
               /\ UNCHANGED aerr
          ELSE /\ apc' = [apc EXCEPT ![p] = "raised"]
               /\ aerr' = [aerr EXCEPT ![p] = out]
               /\ UNCHANGED story_num
    /\ UNCHANGED <<ret, allocated, calls, dirs0, dirs, files, storyVars, res, mainVars,
                   imageVars>>

\* if not os.path.exists(story_folder): ... else story_num += 1
AllocCheck(p) ==
    /\ apc[p] = "check"
    /\ IF ~PathExists(story_num[p])
       THEN /\ apc' = [apc EXCEPT ![p] = "create"]
            /\ UNCHANGED story_num
       ELSE /\ story_num' = [story_num EXCEPT ![p] = story_num[p] + 1]
            /\ UNCHANGED apc
    /\ UNCHANGED <<aerr, ret, allocated, calls, dirs0, dirs, files, storyVars, res, mainVars,
                   imageVars>>

\* os.makedirs(story_folder, exist_ok=True); return story_folder
AllocCreate(p) ==
    /\ apc[p] = "create"
    /\ \E out \in makedirs_exist_ok(PathExists(story_num[p])) :
          IF out = "ok"
          THEN /\ dirs' = dirs \cup {story_num[p]}
               /\ apc' = [apc EXCEPT ![p] = "done"]
               /\ ret' = [ret EXCEPT ![p] = story_num[p]]
               /\ allocated' = Append(allocated, story_num[p])
               /\ UNCHANGED aerr
          ELSE /\ apc' = [apc EXCEPT ![p] = "raised"]
               /\ aerr' = [aerr EXCEPT ![p] = out]
               /\ UNCHANGED <<dirs, ret, allocated>>
    /\ UNCHANGED <<story_num, calls, dirs0, files, storyVars, res, mainVars,
                   imageVars>>

\* ------------------------------------------------ generate_story (Spec)
\* The caller of Spec is invocation 1 of _get_next_story_folder.
Caller == 1

StoryOptions == [num_scenes : 0..MaxScenes, auto_save : BOOLEAN,
                 enable_narration : BOOLEAN]

\* generate_story(story_options) is called; start_time = datetime.now()
Start ==
    /\ pc = "idle"
    /\ \E o \in StoryOptions : opts' = o
    /\ pc' = "decompose"
    /\ UNCHANGED <<story_data, scenes, story_folder, idx, cur, err, story_result,
                   nextId, log, allocVars, fsVars, res, mainVars,
                   imageVars>>

\* mutant: every failure is wrapped, ImageError included
StoryError_always_wraps(e) == ImageError("STORY_GENERATION_ERROR")

\* mutant: bare re-raise of whatever was caught
StoryError_never_wraps(e) == e

\* except Exception as e: re-raise an ImageError, wrap anything else
StoryError(e) ==
    IF e.type = "ImageError" THEN e ELSE ImageError("STORY_GENERATION_ERROR")

\* scenes = self.client.decompose_story(story_options)
Decompose ==
    /\ pc = "decompose"
    /\ \E reply \in Replies :
          LET r == decompose_story(opts.num_scenes, reply)
          IN  /\ story_data' = reply
              /\ log' = Append(log, Event("decompose", 0, 0,
                                        IF r.error = NoError THEN "ok"
                                        ELSE IF r.error.type = "ImageError"
                                             THEN r.error.code ELSE r.error.type))
              /\ IF r.error # NoError
                 THEN /\ err' = StoryError(r.error)
                      /\ pc' = "raised"
                      /\ UNCHANGED <<scenes, idx>>
                 ELSE /\ scenes' = r.scenes
                      /\ pc' = "folder"
                      /\ idx' = 1
                      /\ UNCHANGED err
    /\ UNCHANGED <<opts, story_folder, cur, story_result, nextId, allocVars, fsVars, res, mainVars,
                   imageVars>>

\* mutant: the folder is allocated whether or not auto_save is set
CallAlloc_always ==
    /\ pc = "folder"
    /\ pc' = "alloc"
    /\ Invoke(Caller)
    /\ log' = Append(log, Event("alloc", 0, 0, "call"))
    /\ UNCHANGED <<opts, story_data, scenes, story_folder, idx, cur, err, story_result,
                   nextId, fsVars, res, mainVars, imageVars>>

\* story_folder = None; if story_options.auto_save: story_folder = self._get_next_story_folder()
CallAlloc ==
    /\ pc = "folder"
    /\ IF opts.auto_save
       THEN /\ pc' = "alloc"
            /\ Invoke(Caller)
            /\ log' = Append(log, Event("alloc", 0, 0, "call"))
       ELSE /\ pc' = "loop"
            /\ UNCHANGED <<allocVars, log>>
    /\ UNCHANGED <<opts, story_data, scenes, story_folder, idx, cur, err, story_result,
                   nextId, fsVars, res, mainVars,
                   imageVars>>

\* _get_next_story_folder returned, or raised inside the outer try only
AllocReturn ==
    /\ pc = "alloc"
    /\ \/ /\ apc[Caller] = "done"
          /\ story_folder' = ret[Caller]
          /\ pc' = "loop"
          /\ UNCHANGED err
       \/ /\ apc[Caller] = "raised"
          /\ err' = StoryError(OtherError(aerr[Caller]))
          /\ pc' = "raised"
          /\ UNCHANGED story_folder
    /\ UNCHANGED <<opts, story_data, scenes, idx, cur, story_result, nextId, log,
                   allocVars, fsVars, res, mainVars,
                   imageVars>>

\* open(path, 'wb') creates or truncates the file; complete = all bytes written
WriteFile(fs, dir, name, complete) ==
    {f \in fs : ~(f.dir = dir /\ f.name = name)}
        \cup {[dir |-> dir, name |-> name, complete |-> complete]}

\* mutant: each scene is sent to a folder of its own
SaveDir_per_scene ==
    IF opts.auto_save /\ story_folder # 0 THEN story_folder + idx - 1 ELSE 0

\* save_dir passed to generate_image for the current scene (0 = auto_save=False)
SaveDir == IF opts.auto_save /\ story_folder # 0 THEN story_folder ELSE 0

\* mutant: no per-scene except clause, the failure leaves the loop
SceneFailed_propagates ==
    /\ pc' = "raised"
    /\ idx' = idx
    /\ cur' = NoResult
    /\ UNCHANGED scenes

\* mutant: a failed scene is attempted again
SceneFailed_retries ==
    /\ pc' = "loop"
    /\ idx' = idx
    /\ cur' = NoResult
    /\ UNCHANGED scenes

\* mutant: the narration block sits after the per-scene try, not inside it
SceneFailed_narrates ==
    /\ cur' = NoResult
    /\ UNCHANGED scenes
    /\ IF opts.enable_narration
       THEN pc' = "narrate" /\ UNCHANGED idx
       ELSE pc' = "loop" /\ idx' = idx + 1

\* the scene failed: except Exception ... continue
SceneFailed ==
    /\ pc' = "loop"
    /\ idx' = idx + 1
    /\ cur' = NoResult
    /\ UNCHANGED scenes

\* mutant: narration is started for the scene after the one just generated
SceneGenerated_skips_ahead(result) ==
    /\ scenes' = [scenes EXCEPT ![idx].image_result = result]
    /\ cur' = NoResult
    /\ idx' = idx + 1
    /\ pc' = IF opts.enable_narration THEN "narrate" ELSE "loop"

\* scene.image_result = <result>; then narration if enabled, else next scene
SceneGenerated(result) ==
    /\ scenes' = [scenes EXCEPT ![idx].image_result = result]
    /\ cur' = NoResult
    /\ IF opts.enable_narration
       THEN pc' = "narrate" /\ UNCHANGED idx
       ELSE pc' = "loop" /\ idx' = idx + 1

\* mutant: a counter, every draw is a value never drawn before
uuid4_hex8_counter == {nextId}

\* generation_id = f"gen-{uuid.uuid4().hex[:8]}": 32 random bits, so a draw
\* can repeat an earlier one.  Ids are only compared for equality: a draw is
\* one of the values drawn before (1..nextId-1) or a new value (nextId).
uuid4_hex8 == 1..nextId

\* generate_image up to the parsed result: validate_prompt (ValueError),
\* client call and parse (ImageError), or a result with a URL, a base64
\* payload, or both
GenerateOutcomes == {"ValueError", "ImageError", "url", "b64", "url_b64"}

\* for i, scene in enumerate(scenes, 1): scene.image_result = self.generate_image(...)
SceneImage ==
    /\ pc = "loop"
    /\ idx <= Len(scenes)
    /\ \E out \in GenerateOutcomes, id \in uuid4_hex8 :
          LET call == Event("image", idx, SaveDir, "call")
              result == ImageResult(out \in {"url", "url_b64"},
                                    out \in {"b64", "url_b64"}, id)
          IN  IF out \in {"ValueError", "ImageError"}
              THEN /\ SceneFailed
                   /\ log' = Append(Append(log, call), Event("image_end", idx, SaveDir, out))
                   /\ UNCHANGED nextId
              ELSE /\ nextId' = IF id = nextId THEN nextId + 1 ELSE nextId
                   /\ IF SaveDir # 0 /\ result.image_url
                      THEN /\ cur' = result
                           /\ pc' = "download"
                           /\ log' = Append(log, call)
                           /\ UNCHANGED <<scenes, idx>>
                      ELSE /\ SceneGenerated(result)
                           /\ log' = Append(Append(log, call),
                                            Event("image_end", idx, SaveDir, "ok"))
    /\ UNCHANGED <<opts, story_data, story_folder, err, story_result, allocVars, fsVars, res, mainVars,
                   imageVars>>

\* download_and_save_image: requests.get(...); result.image_data = response.content
Download ==
    /\ pc = "download"
    /\ \E ok \in BOOLEAN :
          IF ok
          THEN /\ cur' = [cur EXCEPT !.image_data = TRUE]
               /\ pc' = "save"
               /\ log' = Append(log, Event("download", idx, SaveDir, "ok"))
               /\ UNCHANGED <<scenes, idx>>
          ELSE /\ SceneFailed
               /\ log' = Append(Append(log, Event("download", idx, SaveDir, "DOWNLOAD_ERROR")),
                                Event("image_end", idx, SaveDir, "ImageError"))
    /\ UNCHANGED <<opts, story_data, story_folder, err, story_result, nextId, allocVars, fsVars, res, mainVars,
                   imageVars>>

\* the file name built by _generate_safe_filename: the cleaned prompt cut to
\* 50 characters, the time to the second and the generation id.  The first
\* two parts can be equal for two images, so only the id tells names apart.
ImageName(result) == <<"image", result.generation_id>>

\* os.makedirs(dirname); open(save_path, 'wb'); f.write(...); result.file_path = save_path
SaveOutcomes == {"ok", "open_failed", "write_failed"}

Save ==
    /\ pc = "save"
    /\ \E out \in SaveOutcomes :
          /\ dirs' = IF out = "open_failed" THEN dirs ELSE dirs \cup {story_folder}
          /\ files' = IF out = "open_failed" THEN files
                      ELSE WriteFile(files, story_folder, ImageName(cur), out = "ok")
          /\ IF out = "ok"
             THEN /\ SceneGenerated([cur EXCEPT
                        !.file_path = <<story_folder, ImageName(cur)>>])
                  /\ log' = Append(Append(log, Event("save", idx, SaveDir, "ok")),
                                   Event("image_end", idx, SaveDir, "ok"))
             ELSE /\ SceneFailed
                  /\ log' = Append(Append(log, Event("save", idx, SaveDir, "SAVE_ERROR")),
                                   Event("image_end", idx, SaveDir, "ImageError"))
    /\ UNCHANGED <<opts, story_data, story_folder, err, story_result, nextId, allocVars, res, mainVars,
                   imageVars>>

\* audio_data = self.client.generate_scene_narration(scene, ...)
Narrate ==
    /\ pc = "narrate"
    /\ \E ok \in BOOLEAN :
          /\ log' = Append(log, Event("narrate", idx, SaveDir, IF ok THEN "ok" ELSE "ImageError"))
          /\ IF ok /\ SaveDir # 0
             THEN pc' = "audio" /\ UNCHANGED idx
             ELSE pc' = "loop" /\ idx' = idx + 1
    /\ UNCHANGED <<opts, story_data, scenes, story_folder, cur, err, story_result, nextId,
                   allocVars, fsVars, res, mainVars,
                   imageVars>>

\* scene_{i}_narration.mp3
AudioName(i) == <<"audio", i>>

\* mutant: audio_file_path assigned before the file is written
AudioPathAfter_assigned_first(out) == <<story_folder, AudioName(idx)>>

\* scene.audio_file_path after the write: assigned after the with block only
AudioPathAfter(out) ==
    IF out = "ok" THEN <<story_folder, AudioName(idx)>>
    ELSE scenes[idx].audio_file_path

\* with open(audio_path, 'wb') as audio_file: audio_file.write(audio_data);
\* scene.audio_file_path = audio_path.  Any failure is swallowed.
AudioWrite ==
    /\ pc = "audio"
    /\ \E out \in SaveOutcomes :
          /\ files' = IF out = "open_failed" THEN files
                      ELSE WriteFile(files, story_folder, AudioName(idx), out = "ok")
          /\ scenes' = [scenes EXCEPT ![idx].audio_file_path = AudioPathAfter(out)]
          /\ log' = Append(log, Event("audio_write", idx, SaveDir, out))
    /\ pc' = "loop"
    /\ idx' = idx + 1
    /\ UNCHANGED <<opts, story_data, story_folder, cur, err, story_result, nextId, allocVars, dirs, res, mainVars,
                   imageVars>>

\* StoryResult(story_prompt, scenes, ...) with its derived properties
StoryResult(ss) ==
    [scenes |-> ss,
     completed_scenes |-> completed_scenes(ss),
     failed_scenes |-> failed_scenes(ss),
     success_rate |-> success_rate(ss)]

\* story_result = StoryResult(...); print summary; return story_result
Finish ==
    /\ pc = "loop"
    /\ idx > Len(scenes)
    /\ story_result' = <<StoryResult(scenes)>>
    /\ pc' = "returned"
    /\ UNCHANGED <<opts, story_data, scenes, story_folder, idx, cur, err, nextId, log,
                   allocVars, fsVars, res, mainVars,
                   imageVars>>

\* folders present before the first run, each with a file of its own
OldFiles(ds) == {[dir |-> d, name |-> <<"old", d>>, complete |-> TRUE] : d \in ds}

\* no call has left anything behind: locals and histories are empty, but
\* for the result in hand
BlankButResult ==
    /\ opts = [num_scenes |-> 0, auto_save |-> FALSE, enable_narration |-> FALSE]
    /\ story_data = NoReply
    /\ scenes = <<>>
    /\ story_folder = 0
    /\ idx = 0
    /\ err = NoError
    /\ story_result = <<>>
    /\ apc = [p \in Procs |-> "idle"]
    /\ story_num = [p \in Procs |-> 0]
    /\ ret = [p \in Procs |-> 0]
    /\ aerr = [p \in Procs |-> None]
    /\ nextId = 1
    /\ calls = 0
    /\ dirs0 = [p \in Procs |-> {}]
    /\ allocated = <<>>
    /\ log = <<>>
    /\ issued = <<>>
    /\ requests = 0
    /\ api_error = NoFailure
    /\ safe_filename = <<>>
    /\ args = NoArgs
    /\ exit_code = <<>>

Blank ==
    /\ BlankButResult
    /\ cur = NoResult

\* no generate_story call and no _get_next_story_folder invocation yet
Idle ==
    /\ pc = "idle"
    /\ request = NoRequest
    /\ raw_response = NoResponse
    /\ Blank

Init ==
    /\ Idle
    /\ dirs \in SUBSET (1..MaxPre)
    /\ files = OldFiles(dirs)
    /\ res = <<>>

Next ==
    \/ Start
    \/ Decompose
    \/ CallAlloc
    \/ AllocBase(Caller)
    \/ AllocCheck(Caller)
    \/ AllocCreate(Caller)
    \/ AllocReturn
    \/ SceneImage
    \/ Download
    \/ Save
    \/ Narrate
    \/ AudioWrite
    \/ Finish

Spec == Init /\ [][Next]_vars

\* ------------------------------------- _get_next_story_folder on its own
InFlight(p) == apc[p] \in {"base", "check", "create"}

\* a caller starts an invocation whatever the other caller is doing
CallerInvoke(p) ==
    /\ ~InFlight(p)
    /\ calls < MaxAllocs
    /\ Invoke(p)
    /\ UNCHANGED <<dirs, files, storyVars, res, mainVars, imageVars>>

\* callers that serialize externally: no invocation starts while one is in flight
SerialInvoke(p) ==
    /\ \A q \in Procs : ~InFlight(q)
    /\ CallerInvoke(p)

\* the story run of caller p saves a scene file into the folder it was given
\* (generate_image(..., save_dir=story_folder))
CallerWrite(p) ==
    /\ apc[p] = "done"
    /\ files' = WriteFile(files, ret[p], <<"image", p>>, TRUE)
    /\ apc' = [apc EXCEPT ![p] = "wrote"]
    /\ UNCHANGED <<story_num, ret, aerr, allocated, calls, dirs0, dirs,
                   storyVars, res, mainVars,
                   imageVars>>

NextSerial ==
    \E p \in Procs :
        \/ SerialInvoke(p)
        \/ AllocBase(p)
        \/ AllocCheck(p)
        \/ AllocCreate(p)
        \/ CallerWrite(p)

SpecSerial == Init /\ [][NextSerial]_vars

NextRace ==
    \E p \in Procs :
        \/ CallerInvoke(p)
        \/ AllocBase(p)
        \/ AllocCheck(p)
        \/ AllocCreate(p)
        \/ CallerWrite(p)

SpecRace == Init /\ [][NextRace]_vars

\* ------------------------------------------------- StoryResult on its own
\* every scene list of up to MaxResultScenes scenes, each generated or not
SceneLists ==
    UNION {{[i \in 1..n |->
                IF g[i]
                THEN [StoryScene(i, "upstream", i) EXCEPT
                          !.image_result = ImageResult(TRUE, FALSE, i)]
                ELSE StoryScene(i, "upstream", i)] : g \in [1..n -> BOOLEAN]}
           : n \in 0..MaxResultScenes}

InitResult ==
    /\ Idle
    /\ dirs = {}
    /\ files = {}
    /\ res \in {<<ss>> : ss \in SceneLists}

\* StoryResult(story_prompt, scenes, generation_time) and its properties
Inspect ==
    /\ Len(res) = 1
    /\ res' = <<res[1], StoryResult(res[1])>>
    /\ UNCHANGED <<storyVars, allocVars, fsVars, imageVars, mainVars>>

NextResult == Inspect

SpecResult == InitResult /\ [][NextResult]_vars

\* ------------------------------------------- validate_prompt (SpecPrompt)
\* A prompt is a str: a sequence of characters.
UpperCase == <<"A", "B", "C", "D", "E", "F", "G", "H", "I", "J", "K", "L", "M",
               "N", "O", "P", "Q", "R", "S", "T", "U", "V", "W", "X", "Y", "Z">>

LowerCase == <<"a", "b", "c", "d", "e", "f", "g", "h", "i", "j", "k", "l", "m",
               "n", "o", "p", "q", "r", "s", "t", "u", "v", "w", "x", "y", "z">>

\* the characters str.strip() removes
Whitespace == {" ", "\t", "\n"}

\* c.lower()
lower_char(c) ==
    IF \E i \in 1..Len(UpperCase) : UpperCase[i] = c
    THEN LowerCase[CHOOSE i \in 1..Len(UpperCase) : UpperCase[i] = c]
    ELSE c

\* c.upper()
upper_char(c) ==
    IF \E i \in 1..Len(LowerCase) : LowerCase[i] = c
    THEN UpperCase[CHOOSE i \in 1..Len(LowerCase) : LowerCase[i] = c]
    ELSE c

\* prompt.lower()
lower(p) == [i \in 1..Len(p) |-> lower_char(p[i])]

\* prompt.strip()
strip(p) ==
    IF \A i \in 1..Len(p) : p[i] \in Whitespace THEN <<>>
    ELSE LET first == CHOOSE i \in 1..Len(p) :
                          /\ p[i] \notin Whitespace
                          /\ \A j \in 1..(i - 1) : p[j] \in Whitespace
             last == CHOOSE i \in 1..Len(p) :
                         /\ p[i] \notin Whitespace
                         /\ \A j \in (i + 1)..Len(p) : p[j] \in Whitespace
         IN  SubSeq(p, first, last)

\* term in text
Contains(text, term) ==
    \E i \in 0..(Len(text) - Len(term)) :
        \A j \in 1..Len(term) : text[i + j] = term[j]

\* problematic_terms = ['violence', 'gore', 'explicit']
problematic_terms ==
    {<<"v", "i", "o", "l", "e", "n", "c", "e">>,
     <<"g", "o", "r", "e">>,
     <<"e", "x", "p", "l", "i", "c", "i", "t">>}

\* the OpenAI limit the length is compared with
MaxPromptLength == 4000

\* mutant: the limit itself is rejected
TooLong_inclusive(p) == Len(p) >= MaxPromptLength

\* len(prompt) > 4000
TooLong(p) == Len(p) > MaxPromptLength

\* mutant: validation is left to the remote service
validate_prompt_accepts_all(p) == TRUE

\* ImageGenerationService.validate_prompt
validate_prompt(p) ==
    IF p = <<>> THEN FALSE
    ELSE IF strip(p) = <<>> THEN FALSE
    ELSE IF TooLong(p) THEN FALSE
    ELSE IF \E term \in problematic_terms : Contains(lower(p), term) THEN FALSE
    ELSE TRUE

\* ------------------------------------------------------------ parser.py
\* The "created" value of a response, by its Python type and by what the
\* conversions make of it: a number datetime.fromtimestamp accepts, one whose
\* year is out of range, one that does not fit the platform time_t, an
\* infinity, a NaN; a str is the text of such a number or malformed.
Timestamps ==
    {NoTimestamp, [type |-> "list", value |-> None]}
    \cup [type : {"int"},
          value : {"in_range", "year_out_of_range", "time_t_out_of_range"}]
    \cup [type : {"float"},
          value : {"in_range", "year_out_of_range", "time_t_out_of_range", "inf", "nan"}]
    \cup [type : {"str"},
          value : {"in_range", "year_out_of_range", "time_t_out_of_range", "inf", "nan",
                   "malformed"}]

\* float(timestamp) on a str: the exception raised (None = no exception)
float_raises(ts) ==
    IF ts.type = "str" /\ ts.value = "malformed" THEN "ValueError" ELSE None

\* int(<float>): the exception raised
int_raises(ts) ==
    CASE ts.type \in {"str", "float"} /\ ts.value = "inf" -> "OverflowError"
      [] ts.type \in {"str", "float"} /\ ts.value = "nan" -> "ValueError"
      [] OTHER -> None

\* datetime.fromtimestamp(timestamp): the exception raised
fromtimestamp_raises(ts) ==
    CASE ts.type \notin {"int", "float", "str"} -> "TypeError"
      [] ts.value = "year_out_of_range" -> "ValueError"
      [] ts.value = "time_t_out_of_range" -> "OverflowError"
      [] OTHER -> None

\* the first exception raised inside the try block of _parse_timestamp
TimestampRaises(ts) ==
    IF float_raises(ts) # None THEN float_raises(ts)
    ELSE IF int_raises(ts) # None THEN int_raises(ts)
    ELSE fromtimestamp_raises(ts)

\* ImageResponseParser._parse_timestamp: the datetime returned ("converted"
\* or "now") or the exception that escapes; except (ValueError, TypeError,
\* OSError) lets OverflowError through.
_parse_timestamp(ts) ==
    IF ts.type = "NoneType" THEN [created_at |-> "now", raised |-> None]
    ELSE IF TimestampRaises(ts) = None THEN [created_at |-> "converted", raised |-> None]
    ELSE IF TimestampRaises(ts) \in {"ValueError", "TypeError", "OSError"}
         THEN [created_at |-> "now", raised |-> None]
    ELSE [created_at |-> None, raised |-> TimestampRaises(ts)]

\* the values of "url" and "b64_json" in an entry
UrlValues == {"missing", "None", "empty", "url"}

B64Values == {"missing", "None", "empty", "valid", "bad_padding", "non_alphabet",
              "non_ascii", "not_str"}

\* truth value of image_url / b64_json
Truthy(v) == v \notin {"missing", "None", "empty"}

\* base64.b64decode(b64_json): characters outside the alphabet are dropped
\* without an error; the exception raised (None = bytes are returned)
b64decode_raises(v) ==
    CASE v = "bad_padding" -> "binascii.Error"
      [] v = "non_ascii" -> "ValueError"
      [] v = "not_str" -> "TypeError"
      [] OTHER -> None

\* the first entry of "data": a dict with url and b64_json, or not a dict
Entries ==
    [type : {"dict"}, url : UrlValues, b64_json : B64Values]
    \cup {[NoEntry EXCEPT !.type = t] : t \in {"str", "NoneType"}}

\* the value under "data": its type, its length (its value for an int)
DataValues ==
    [type : {"list", "NoneType", "str", "dict", "int"}, len : 0..MaxEntries,
     first : Entries]

\* every response parse can be given
Responses ==
    {[NoResponse EXCEPT !.type = t] : t \in {"list", "str", "NoneType"}}
    \cup {[NoResponse EXCEPT !.type = "dict", !.created = c] : c \in Timestamps}
    \cup [type : {"dict"}, has_data : {TRUE}, data : DataValues, created : Timestamps]

\* not data_list
Falsy(d) == d.type = "NoneType" \/ d.len = 0

\* len(data_list), evaluated for the details of the error: the exception raised
len_raises(d) == IF d.type \in {"NoneType", "int"} THEN "TypeError" ELSE None

\* data_list[0]: the exception raised
first_raises(d) ==
    CASE d.type = "dict" -> "KeyError"
      [] d.type = "int" -> "TypeError"
      [] OTHER -> None

\* data_list[0]: the entry of a list, a character of a str
first_of(d) == IF d.type = "list" THEN d.first ELSE [NoEntry EXCEPT !.type = "str"]

ParseError(e) == [error |-> e, result |-> NoResult, created_at |-> None]

\* ImageResponseParser.parse(response, prompt), id being the uuid4 drawn:
\* [error, result, created_at]
parse(response, id) ==
    IF response.type # "dict" THEN ParseError(ImageError("PARSING_ERROR"))
    ELSE IF ~response.has_data THEN ParseError(ImageError("PARSING_ERROR"))
    ELSE IF Falsy(response.data)
         THEN IF len_raises(response.data) # None
              THEN ParseError(OtherError(len_raises(response.data)))
              ELSE ParseError(ImageError("PARSING_ERROR"))
    ELSE IF first_raises(response.data) # None
         THEN ParseError(OtherError(first_raises(response.data)))
    ELSE LET image_data == first_of(response.data)
             created == _parse_timestamp(response.created)
         IN  IF image_data.type # "dict" THEN ParseError(OtherError("AttributeError"))
             ELSE IF ~Truthy(image_data.url) /\ ~Truthy(image_data.b64_json)
                  THEN ParseError(ImageError("PARSING_ERROR"))
             ELSE IF created.raised # None THEN ParseError(OtherError(created.raised))
             ELSE IF Truthy(image_data.b64_json)
                     /\ b64decode_raises(image_data.b64_json) # None
                  THEN ParseError(ImageError("PARSING_ERROR"))
             ELSE [error |-> NoError,
                   result |-> ImageResult(Truthy(image_data.url),
                                          Truthy(image_data.b64_json), id),
                   created_at |-> created.created_at]

\* ------------------------------------------ generate_image (SpecImage)
\* a run of n copies of c
Fill(c, n) == [i \in 1..n |-> c]

\* the prompts of the generate_image calls: valid, empty, whitespace only,
\* denylisted in mixed case, one character too long
ImagePrompts ==
    {<<"x">>, <<>>, <<" ", "\t">>, <<"a", " ", "G", "o", "R", "e">>,
     Fill("x", MaxPromptLength + 1)}

\* save_dir: "generated_images" (0) or a story folder
ImageRequests ==
    [prompt : ImagePrompts, auto_save : BOOLEAN, save_dir : {0, 1}, save_path : {NoPath}]

\* Directories that are not story folders: os.path.dirname(save_path) of a
\* bare file name (""), and the directory of a save_path such as out/a.png.
NoDir == -1
CustomDir == -2

\* save_path of generate_and_save: a bare file name, a file in a directory
SavePaths == {<<NoDir, <<"custom", 0>>>>, <<CustomDir, <<"custom", 0>>>>}

\* mutant: generate_and_save leaves the saving to its own second step
SaveRequests_no_auto_save ==
    [prompt : ImagePrompts, auto_save : {FALSE}, save_dir : {0}, save_path : SavePaths]

\* generate_and_save(prompt, save_path, options) starts with
\* self.generate_image(prompt, options): auto_save and save_dir take their
\* defaults, True and "generated_images"
SaveRequests ==
    [prompt : ImagePrompts, auto_save : {TRUE}, save_dir : {0}, save_path : SavePaths]

\* generate_image(prompt, options, auto_save, save_dir) is called, by the
\* user or as the first statement of generate_and_save
Request ==
    /\ pc \in {"idle", "img_returned", "img_raised"}
    /\ requests < MaxRequests
    /\ \E r \in ImageRequests \cup SaveRequests : request' = r
    /\ requests' = requests + 1
    /\ pc' = "img_validate"
    /\ raw_response' = NoResponse
    /\ api_error' = NoFailure
    /\ cur' = NoResult
    /\ err' = NoError
    /\ log' = <<>>
    /\ UNCHANGED <<opts, story_data, scenes, story_folder, idx, story_result, nextId,
                   issued, safe_filename, allocVars, fsVars, res, mainVars>>

\* if not self.validate_prompt(prompt): raise ValueError(...)
Validate ==
    /\ pc = "img_validate"
    /\ LET valid == validate_prompt(request.prompt)
       IN  /\ log' = Append(log, Event("validate", 0, request.save_dir,
                                       IF valid THEN "True" ELSE "False"))
           /\ IF valid
              THEN pc' = "img_client" /\ UNCHANGED err
              ELSE pc' = "img_raised" /\ err' = OtherError("ValueError")
    /\ UNCHANGED <<opts, story_data, scenes, story_folder, idx, cur, story_result, nextId,
                   imageVars, allocVars, fsVars, res, mainVars>>

\* The exceptions of the openai package that the except clauses name, with
\* two of the other subclasses of APIError, and an exception that is not
\* one of the package's (raised by the call or by _response_to_dict).
ErrorClasses == {"AuthenticationError", "RateLimitError", "APIError", "BadRequestError",
                 "APIConnectionError", "Exception"}

\* isinstance(e, APIError)
IsAPIError(class) == class # "Exception"

\* str(e): nothing of interest, the markers in either case, and near misses
ErrorTexts ==
    {<<"b", "u", "s", "y">>,
     <<"s", "a", "f", "e", "t", "y">>,
     <<"a", " ", "S", "a", "f", "e", "t", "y", " ", "s", "y", "s", "t", "e", "m">>,
     <<"c", "o", "n", "t", "e", "n", "t", " ", "p", "o", "l", "i", "c", "y">>,
     <<"C", "o", "n", "t", "e", "n", "t", " ", "P", "O", "L", "I", "C", "Y", "!">>,
     <<"c", "o", "n", "t", "e", "n", "t", "_", "p", "o", "l", "i", "c", "y">>,
     <<"s", "a", "f", "e">>}

\* what self.client.images.generate can raise
ProviderFailures == [class : ErrorClasses, text : ErrorTexts]

\* "content policy" in error_msg or "safety" in error_msg
policy_markers ==
    {<<"c", "o", "n", "t", "e", "n", "t", " ", "p", "o", "l", "i", "c", "y">>,
     <<"s", "a", "f", "e", "t", "y">>}

\* mutant: the except APIError clause comes first
TranslateError_generic_first(e) ==
    IF IsAPIError(e.class)
    THEN IF \E m \in policy_markers : Contains(lower(e.text), m)
         THEN "CONTENT_POLICY_ERROR" ELSE "API_ERROR"
    ELSE "UNKNOWN_ERROR"

\* the except clauses of client.generate_image, in their order: the code of
\* the ImageError raised for exception e
TranslateError(e) ==
    IF e.class = "AuthenticationError" THEN "AUTHENTICATION_ERROR"
    ELSE IF e.class = "RateLimitError" THEN "RATE_LIMIT_ERROR"
    ELSE IF IsAPIError(e.class)
         THEN IF \E m \in policy_markers : Contains(lower(e.text), m)
              THEN "CONTENT_POLICY_ERROR" ELSE "API_ERROR"
    ELSE "UNKNOWN_ERROR"

\* what _response_to_dict builds from an API reply: "created" and a list of
\* dicts under "data", whose url and b64_json are whatever the API sent
ClientEntries == [type : {"dict"}, url : {"None", "url"},
                  b64_json : {"None", "valid", "bad_padding"}]

ClientTimestamps == [type : {"int"}, value : {"in_range", "time_t_out_of_range"}]

ClientResponses ==
    {[type |-> "dict", has_data |-> TRUE, created |-> c,
      data |-> [type |-> "list", len |-> 0, first |-> NoEntry]] : c \in ClientTimestamps}
    \cup [type : {"dict"}, has_data : {TRUE}, created : ClientTimestamps,
          data : [type : {"list"}, len : 1..MaxEntries, first : ClientEntries]]

\* client.generate_image validates the prompt again: empty or over 4000
ClientRejects(p) == p = <<>> \/ strip(p) = <<>> \/ Len(p) > MaxPromptLength

\* mutant: every failure is wrapped, an ImageError loses its code
ImageFailure_always_wraps(e) == ImageError("GENERATION_FAILED")

\* except ImageError: raise / except Exception: raise ImageError("GENERATION_FAILED")
ImageFailure(e) ==
    IF e.type = "ImageError" THEN e ELSE ImageError("GENERATION_FAILED")

\* the name an error is logged under
ErrorName(e) == IF e.type = "ImageError" THEN e.code ELSE e.type

\* raw_response = self.client.generate_image(prompt, options)
ClientCall ==
    /\ pc = "img_client"
    /\ \/ /\ ClientRejects(request.prompt)
          /\ err' = ImageFailure(OtherError("ValueError"))
          /\ pc' = "img_raised"
          /\ log' = Append(log, Event("client", 0, request.save_dir, "ValueError"))
          /\ UNCHANGED <<raw_response, api_error>>
       \/ /\ ~ClientRejects(request.prompt)
          /\ \E e \in ProviderFailures :
                /\ api_error' = e
                /\ err' = ImageFailure(ImageError(TranslateError(e)))
                /\ log' = Append(log, Event("client", 0, request.save_dir,
                                            TranslateError(e)))
          /\ pc' = "img_raised"
          /\ UNCHANGED raw_response
       \/ /\ ~ClientRejects(request.prompt)
          /\ \E r \in ClientResponses : raw_response' = r
          /\ pc' = "img_parse"
          /\ log' = Append(log, Event("client", 0, request.save_dir, "ok"))
          /\ UNCHANGED <<err, api_error>>
    /\ UNCHANGED <<opts, story_data, scenes, story_folder, idx, cur, story_result, nextId,
                   request, issued, requests, safe_filename, allocVars, fsVars, res,
                   mainVars>>

\* generate_image returns: to the user, or into generate_and_save, which
\* goes on with self.download_and_save_image(result, save_path)
AfterGenerateImage ==
    IF request.save_path # NoPath THEN "gs_download" ELSE "img_returned"

\* result = self.parser.parse(raw_response, prompt); then download and save
\* if auto_save and result.image_url, else return result
Parse ==
    /\ pc = "img_parse"
    /\ \E id \in uuid4_hex8 :
          LET r == parse(raw_response, id)
          IN  IF r.error = NoError
              THEN /\ cur' = r.result
                   /\ issued' = Append(issued, id)
                   /\ nextId' = IF id = nextId THEN nextId + 1 ELSE nextId
                   /\ log' = Append(log, Event("parse", 0, request.save_dir, "ok"))
                   /\ pc' = IF request.auto_save /\ r.result.image_url
                            THEN "img_download" ELSE AfterGenerateImage
                   /\ UNCHANGED err
              ELSE /\ err' = ImageFailure(r.error)
                   /\ log' = Append(log, Event("parse", 0, request.save_dir,
                                               ErrorName(r.error)))
                   /\ pc' = "img_raised"
                   /\ UNCHANGED <<cur, issued, nextId>>
    /\ UNCHANGED <<opts, story_data, scenes, story_folder, idx, story_result,
                   request, raw_response, requests, api_error, safe_filename, allocVars,
                   fsVars, res, mainVars>>

\* download_and_save_image is running for generate_and_save
SecondSave == pc \in {"gs_download", "gs_save"}

\* an ImageError of download_and_save_image passes generate_image's except
\* clauses when it was called there, and nothing in generate_and_save
Raised(e) == IF SecondSave THEN e ELSE ImageFailure(e)

\* the save_path download_and_save_image was given: save_path of
\* generate_and_save, or os.path.join(save_dir, safe_filename)
SavePath ==
    IF SecondSave THEN request.save_path ELSE <<request.save_dir, ImageName(cur)>>

\* mutant: a result without a URL that holds its bytes is written as it is
DownloadImage_saves_payload ==
    /\ pc \in {"img_download", "gs_download"}
    /\ IF ~cur.image_url /\ ~cur.image_data
       THEN /\ err' = Raised(ImageError("DOWNLOAD_ERROR"))
            /\ pc' = "img_raised"
            /\ log' = Append(log, Event("download", 0, SavePath[1], "no_url"))
            /\ UNCHANGED cur
       ELSE /\ cur' = [cur EXCEPT !.image_data = TRUE]
            /\ pc' = IF SecondSave THEN "gs_save" ELSE "img_save"
            /\ log' = Append(log, Event("download", 0, SavePath[1], "ok"))
            /\ UNCHANGED err
    /\ UNCHANGED <<opts, story_data, scenes, story_folder, idx, story_result, nextId,
                   imageVars, allocVars, fsVars, res, mainVars>>

\* download_and_save_image(result, save_path): if not result.image_url: raise
\* DOWNLOAD_ERROR; requests.get(result.image_url, timeout=30);
\* response.raise_for_status(); result.image_data = response.content
DownloadImage ==
    /\ pc \in {"img_download", "gs_download"}
    /\ IF ~cur.image_url
       THEN /\ err' = Raised(ImageError("DOWNLOAD_ERROR"))
            /\ pc' = "img_raised"
            /\ log' = Append(log, Event("download", 0, SavePath[1], "no_url"))
            /\ UNCHANGED cur
       ELSE \E out \in {"ok", "RequestException"} :
               /\ log' = Append(log, Event("download", 0, SavePath[1], out))
               /\ IF out = "ok"
                  THEN /\ cur' = [cur EXCEPT !.image_data = TRUE]
                       /\ pc' = IF SecondSave THEN "gs_save" ELSE "img_save"
                       /\ UNCHANGED err
                  ELSE /\ err' = Raised(ImageError("DOWNLOAD_ERROR"))
                       /\ pc' = "img_raised"
                       /\ UNCHANGED cur
    /\ UNCHANGED <<opts, story_data, scenes, story_folder, idx, story_result, nextId,
                   imageVars, allocVars, fsVars, res, mainVars>>

\* mutant: file_path assigned before the file is written
FilePathAfter_assigned_first(out) == SavePath

\* mutant: a failed save resets file_path
FilePathAfter_cleared_on_failure(out) == IF out = "ok" THEN SavePath ELSE NoPath

\* result.file_path after the save: assigned after the with block only
FilePathAfter(out) == IF out = "ok" THEN SavePath ELSE cur.file_path

\* os.makedirs(os.path.dirname(save_path), exist_ok=True) raises for the
\* empty dirname of a bare file name
SaveOutcomesAt(path) == IF path[1] = NoDir THEN {"open_failed"} ELSE SaveOutcomes

\* os.makedirs(dirname, exist_ok=True); with open(save_path, 'wb') as f:
\* f.write(result.image_data); result.file_path = save_path; return result
SaveImage ==
    /\ pc \in {"img_save", "gs_save"}
    /\ \E out \in SaveOutcomesAt(SavePath) :
          /\ dirs' = IF out = "open_failed" \/ SavePath[1] = 0 THEN dirs
                     ELSE dirs \cup {SavePath[1]}
          /\ files' = IF out = "open_failed" THEN files
                      ELSE WriteFile(files, SavePath[1], SavePath[2], out = "ok")
          /\ cur' = [cur EXCEPT !.file_path = FilePathAfter(out)]
          /\ log' = Append(log, Event("save", 0, SavePath[1], out))
          /\ IF out = "ok"
             THEN /\ pc' = IF SecondSave THEN "img_returned" ELSE AfterGenerateImage
                  /\ UNCHANGED err
             ELSE pc' = "img_raised" /\ err' = Raised(ImageError("SAVE_ERROR"))
    /\ UNCHANGED <<opts, story_data, scenes, story_folder, idx, story_result, nextId,
                   imageVars, allocVars, res, mainVars>>

NextImage ==
    \/ Request
    \/ Validate
    \/ ClientCall
    \/ Parse
    \/ DownloadImage
    \/ SaveImage

\* no call yet, nothing on disk
InitImage ==
    /\ Idle
    /\ dirs = {}
    /\ files = {}
    /\ res = <<>>

SpecImage == InitImage /\ [][NextImage]_vars

\* ----------------------------------------------------- parse on its own
\* parse is about to be applied to any of the responses
InitParse ==
    /\ Blank
    /\ pc = "img_parse"
    /\ request = [prompt |-> <<"x">>, auto_save |-> FALSE, save_dir |-> 0,
                  save_path |-> NoPath]
    /\ raw_response \in Responses
    /\ dirs = {}
    /\ files = {}
    /\ res = <<>>

NextParse == Parse

SpecParse == InitParse /\ [][NextParse]_vars

\* ------------------------------------------- validate_prompt on its own
PromptAlphabet == {"g", "o", "r", "e", "G", "R", " ", "x"}

\* every prompt of up to MaxPromptText characters
ShortPrompts == UNION {[1..n -> PromptAlphabet] : n \in 0..MaxPromptText}

\* each term in lower case, in upper case and capitalized
TermSpellings ==
    UNION {{t, [i \in 1..Len(t) |-> upper_char(t[i])],
            [i \in 1..Len(t) |-> IF i = 1 THEN upper_char(t[i]) ELSE t[i]],
            [i \in 1..Len(t) |-> IF i = Len(t) THEN upper_char(t[i]) ELSE t[i]]}
           : t \in problematic_terms}

\* a term alone, inside a word, between blanks, and cut short
TermPrompts ==
    {pre \o t \o post : pre \in {<<>>, <<"x">>, <<" ">>}, t \in TermSpellings,
                        post \in {<<>>, <<"x">>, <<"\n">>}}
    \cup {SubSeq(t, 1, Len(t) - 1) : t \in TermSpellings}
    \cup {SubSeq(t, 2, Len(t)) : t \in TermSpellings}

\* prompts of MaxPromptLength - 1, MaxPromptLength and MaxPromptLength + 1
\* characters: plain, blank, and with a term at either end
LongPrompts ==
    UNION {{Fill("x", n), Fill(" ", n),
            <<"G", "o", "r", "e">> \o Fill("x", n - 4),
            Fill("x", n - 4) \o <<"g", "o", "r", "E">>,
            Fill(" ", n - 1) \o <<"x">>}
           : n \in (MaxPromptLength - 1)..(MaxPromptLength + 1)}

PromptInputs == ShortPrompts \cup TermPrompts \cup LongPrompts

\* validate_prompt is about to be applied to any of the prompts
InitPrompt ==
    /\ Blank
    /\ pc = "img_validate"
    /\ request \in [prompt : PromptInputs, auto_save : {FALSE}, save_dir : {0},
                    save_path : {NoPath}]
    /\ raw_response = NoResponse
    /\ dirs = {}
    /\ files = {}
    /\ res = <<>>

NextPrompt == Validate

SpecPrompt == InitPrompt /\ [][NextPrompt]_vars

\* ------------------------------------- _generate_safe_filename (SpecName)
\* Characters are one-character strings; a character outside ASCII is
\* written by its name: e_acute and E_ACUTE are a letter and its capital,
\* arabic_3 is a decimal digit, em_dash is punctuation.
Digits == <<"0", "1", "2", "3", "4", "5", "6", "7", "8", "9">>

HexDigits == Digits \o <<"a", "b", "c", "d", "e", "f">>

\* str.isalnum() characters outside ASCII
ForeignAlnum == {"e_acute", "E_ACUTE", "arabic_3"}

\* c.lower() for every character of the model
lower_any(c) == IF c = "E_ACUTE" THEN "e_acute" ELSE lower_char(c)

\* mutant: \w with re.ASCII, as the docstring describes it
WordChar_ascii(c) ==
    \/ \E i \in 1..Len(LowerCase) : c \in {LowerCase[i], UpperCase[i]}
    \/ \E i \in 1..Len(Digits) : c = Digits[i]
    \/ c = "_"

\* \w of a str pattern: letters and digits of any script, and the underscore
WordChar(c) ==
    \/ \E i \in 1..Len(LowerCase) : c \in {LowerCase[i], UpperCase[i]}
    \/ \E i \in 1..Len(Digits) : c = Digits[i]
    \/ c = "_"
    \/ c \in ForeignAlnum

\* [-\s]
Separator(c) == c = "-" \/ c \in Whitespace

\* re.sub(r'[^\w\s-]', '', text)
DropSpecial(text) == SelectSeq(text, LAMBDA c : WordChar(c) \/ Separator(c))

\* re.sub(r'[-\s]+', '_', text): each run of separators becomes one underscore
RECURSIVE JoinRuns(_)
JoinRuns(text) ==
    IF text = <<>> THEN <<>>
    ELSE LET n == Len(text)
             front == JoinRuns(SubSeq(text, 1, n - 1))
         IN  IF ~Separator(text[n]) THEN Append(front, text[n])
             ELSE IF n > 1 /\ Separator(text[n - 1]) THEN front
             ELSE Append(front, "_")

\* text.rstrip('_')
rstrip_underscore(text) ==
    IF \A i \in 1..Len(text) : text[i] = "_" THEN <<>>
    ELSE SubSeq(text, 1, CHOOSE i \in 1..Len(text) :
                             /\ text[i] # "_"
                             /\ \A j \in (i + 1)..Len(text) : text[j] = "_")

\* the length clean_prompt is cut to
MaxCleanLength == 50

\* mutant: the cut is one character late
Truncate_late(text) ==
    IF Len(text) > MaxCleanLength + 1
    THEN rstrip_underscore(SubSeq(text, 1, MaxCleanLength + 1))
    ELSE text

\* if len(clean_prompt) > 50: clean_prompt = clean_prompt[:50].rstrip('_')
Truncate(text) ==
    IF Len(text) > MaxCleanLength
    THEN rstrip_underscore(SubSeq(text, 1, MaxCleanLength))
    ELSE text

\* the decimal digits of n, zero-padded to width w (%Y, %m, %d, %H, %M, %S)
Pad(n, w) == [i \in 1..w |-> Digits[((n \div (10 ^ (w - i))) % 10) + 1]]

\* datetime.now().strftime("%Y%m%d_%H%M%S")
strftime(now) ==
    Pad(now.year, 4) \o Pad(now.month, 2) \o Pad(now.day, 2) \o <<"_">>
        \o Pad(now.hour, 2) \o Pad(now.minute, 2) \o Pad(now.second, 2)

\* the values datetime.now() takes
Clock ==
    {[year |-> 2024, month |-> 1, day |-> 5, hour |-> 9, minute |-> 3, second |-> 7],
     [year |-> 2025, month |-> 12, day |-> 31, hour |-> 23, minute |-> 59, second |-> 59]}

\* f"gen-{uuid.uuid4().hex[:8]}" for the draw numbered n: eight hex digits
GenerationId(n) ==
    <<"g", "e", "n", "-">> \o [i \in 1..8 |-> HexDigits[((n \div (16 ^ (8 - i))) % 16) + 1]]

\* ImageGenerationService._generate_safe_filename(prompt, generation_id)
_generate_safe_filename(prompt, generation_id, now) ==
    LET clean_prompt == Truncate(JoinRuns(DropSpecial([i \in 1..Len(prompt) |->
                                                          lower_any(prompt[i])])))
    IN  clean_prompt \o <<"_">> \o strftime(now) \o <<"_">> \o generation_id
            \o <<".", "p", "n", "g">>

\* safe_filename = self._generate_safe_filename(prompt, result.generation_id)
MakeFilename ==
    /\ pc = "img_name"
    /\ \E now \in Clock :
          safe_filename' = _generate_safe_filename(request.prompt,
                                                   GenerationId(cur.generation_id), now)
    /\ pc' = "img_named"
    /\ UNCHANGED <<opts, story_data, scenes, story_folder, idx, cur, err, story_result,
                   nextId, log, allocVars, fsVars, res, request, raw_response, issued,
                   requests, api_error, mainVars>>

NameAlphabet == {"a", "B", "7", "_", "-", " ", "!", "/", "e_acute", "E_ACUTE"}

\* every prompt of up to MaxNameText characters
ShortNamePrompts == UNION {[1..n -> NameAlphabet] : n \in 0..MaxNameText}

\* prompts around the cut: plain, with a separator at the cut, with a run of
\* separators across it, with characters that are dropped before it
LongNamePrompts ==
    UNION {{Fill("a", n),
            Fill("a", n - 2) \o <<" ", "b">>,
            Fill("a", n - 3) \o <<"-", " ", "b">>,
            <<"!", "/">> \o Fill("a", n - 2),
            Fill("a", n - 3) \o <<"_", "_", "b">>}
           : n \in (MaxCleanLength - 1)..(MaxCleanLength + 2)}
    \cup {Fill("a", MaxCleanLength - 1) \o <<"_">> \o Fill("b", n) : n \in 0..MaxNameText}

\* the draws whose ids the names are built with: 00000001 and 000000ab
NameDraws == {1, 171}

\* _generate_safe_filename is about to be applied to any prompt
InitName ==
    /\ BlankButResult
    /\ cur \in {ImageResult(TRUE, FALSE, n) : n \in NameDraws}
    /\ pc = "img_name"
    /\ request \in [prompt : ShortNamePrompts \cup LongNamePrompts,
                    auto_save : {TRUE}, save_dir : {0}, save_path : {NoPath}]
    /\ raw_response = NoResponse
    /\ dirs = {}
    /\ files = {}
    /\ res = <<>>

NextName == MakeFilename

SpecName == InitName /\ [][NextName]_vars

\* --------------------------------------------------------- main (SpecMain)
\* --save-path: absent, a bare file name, a file in a directory
SavePathArgs == {NoPath} \cup SavePaths

Models == {"dall-e-2", "dall-e-3"}

\* one size only DALL-E 2 takes, one both take, one only DALL-E 3 takes
Sizes == {"512x512", "1024x1024", "1792x1024"}

Qualities == {"standard", "hd"}

Styles == {"vivid", "natural"}

\* --scenes N (type=int, default 5): below, at and above the ends of 1..10
SceneArgs == {-1, 0, 1, 5, 10, 11}

\* what parse_arguments returns; api_key = args.api_key or the environment
\* variable is set
Namespaces ==
    [argv : {"ok"}, model : Models, size : Sizes, quality : Qualities, style : Styles,
     story : BOOLEAN, scenes : SceneArgs, verbose : BOOLEAN, no_save : BOOLEAN,
     save_path : SavePathArgs, api_key : BOOLEAN]

\* an exception leaves main: the except clauses of main in their order;
\* SystemExit is not an Exception and passes through to sys.exit
ExitStatus(e) ==
    CASE e.type = "ImageError" -> 1
      [] e.type = "ValueError" -> 1
      [] e.type = "KeyboardInterrupt" -> 130
      [] e.type = "SystemExit" -> e.code
      [] OTHER -> 1

\* exception e is raised inside the try block of main
Leave(e) ==
    /\ err' = e
    /\ exit_code' = <<ExitStatus(e)>>
    /\ pc' = "main_exited"

\* args = parse_arguments(): argparse ends the process itself on a usage
\* error (status 2) and on --help (status 0)
ParseArguments ==
    /\ pc = "main_parse"
    /\ \/ /\ \E a \in Namespaces : args' = a
          /\ pc' = "main_validate"
          /\ UNCHANGED <<err, exit_code>>
       \/ /\ \E code \in {0, 2} : Leave([type |-> "SystemExit", code |-> code])
          /\ UNCHANGED args
    /\ UNCHANGED <<opts, story_data, scenes, story_folder, idx, cur, story_result, nextId,
                   log, allocVars, fsVars, res, imageVars>>

\* the checks of validate_arguments on model, size, quality and style
ArgumentsInvalid(a) ==
    \/ a.model = "dall-e-2" /\ a.size \notin {"256x256", "512x512", "1024x1024"}
    \/ a.model = "dall-e-3" /\ a.size \notin {"1024x1024", "1792x1024", "1024x1792"}
    \/ a.model = "dall-e-2" /\ a.quality # "standard"
    \/ a.model = "dall-e-2" /\ a.style # "vivid"

\* save_dir and not os.path.exists(save_dir)
MustCreate(a) ==
    /\ a.save_path # NoPath
    /\ a.save_path[1] # NoDir
    /\ a.save_path[1] \notin dirs

\* validate_arguments(args)
ValidateArguments ==
    /\ pc = "main_validate"
    /\ IF ArgumentsInvalid(args)
       THEN Leave(OtherError("ValueError")) /\ UNCHANGED dirs
       ELSE IF MustCreate(args)
       THEN \E made \in BOOLEAN :
               IF made
               THEN /\ dirs' = dirs \cup {args.save_path[1]}
                    /\ pc' = "main_setup"
                    /\ UNCHANGED <<err, exit_code>>
               ELSE Leave(OtherError("ValueError")) /\ UNCHANGED dirs
       ELSE /\ pc' = "main_setup"
            /\ UNCHANGED <<err, exit_code, dirs>>
    /\ UNCHANGED <<opts, story_data, scenes, story_folder, idx, cur, story_result, nextId,
                   log, allocVars, files, res, imageVars, args>>

\* api_key = args.api_key or os.getenv(...); service = ImageGenerationService(api_key)
Setup ==
    /\ pc = "main_setup"
    /\ IF ~args.api_key
       THEN Leave(OtherError("ValueError"))
       ELSE /\ pc' = IF args.story THEN "main_story" ELSE "main_image"
            /\ UNCHANGED <<err, exit_code>>
    /\ UNCHANGED <<opts, story_data, scenes, story_folder, idx, cur, story_result, nextId,
                   log, allocVars, fsVars, res, imageVars, args>>

\* story_num of _get_next_story_folder when nothing else runs: the lowest
\* N from 1 for which story_N does not exist
FirstFree(ds) ==
    CHOOSE n \in 1..(Cardinality(ds) + 1) : n \notin ds /\ \A m \in 1..(n - 1) : m \in ds

\* how the scenes of a story fare, as main sees it
Fates == {"all", "none", "first", "OSError", "KeyboardInterrupt"}

\* the result generate_image returns to generate_story for scene i: an image
\* with a URL, downloaded and saved to folder when folder # 0
SceneResult(i, folder) ==
    IF folder = 0 THEN ImageResult(TRUE, FALSE, i)
    ELSE [ImageResult(TRUE, TRUE, i) EXCEPT
            !.file_path = <<folder, ImageName(ImageResult(TRUE, TRUE, i))>>]

\* story_options = StoryOptions(num_scenes=args.scenes, ...);
\* story_result = service.generate_story(story_options), the call taken as
\* one step: decompose_story, the folder, each scene in turn
CallStory ==
    /\ pc = "main_story"
    /\ opts' = [num_scenes |-> args.scenes, auto_save |-> ~args.no_save,
                enable_narration |-> FALSE]
    /\ \E reply \in Replies, fate \in Fates :
          LET r == decompose_story(args.scenes, reply)
              folder == IF args.no_save THEN 0 ELSE FirstFree(dirs)
              done(i) == fate = "all" \/ (fate = "first" /\ i = 1)
              ss == [i \in 1..Len(r.scenes) |->
                        IF done(i)
                        THEN [r.scenes[i] EXCEPT !.image_result = SceneResult(i, folder)]
                        ELSE r.scenes[i]]
              decomposed == Event("decompose", 0, 0,
                                  IF r.error = NoError THEN "ok" ELSE ErrorName(r.error))
              attempts == [i \in 1..Len(r.scenes) |-> Event("image", i, folder, "call")]
          IN  /\ story_data' = reply
              /\ IF r.error # NoError
                 THEN /\ Leave(StoryError(r.error))
                      /\ log' = Append(log, decomposed)
                      /\ UNCHANGED <<scenes, story_folder, story_result, fsVars>>
                 ELSE IF fate = "OSError"
                 THEN /\ ~args.no_save
                      /\ Leave(StoryError(OtherError("OSError")))
                      /\ log' = Append(log, decomposed)
                      /\ UNCHANGED <<scenes, story_folder, story_result, fsVars>>
                 ELSE IF fate = "KeyboardInterrupt"
                 THEN /\ Leave(OtherError("KeyboardInterrupt"))
                      /\ log' = Append(log, decomposed)
                      /\ UNCHANGED <<scenes, story_folder, story_result, fsVars>>
                 ELSE /\ scenes' = ss
                      /\ story_folder' = folder
                      /\ story_result' = <<StoryResult(ss)>>
                      /\ log' = Append(log, decomposed) \o attempts
                      /\ dirs' = IF folder = 0 THEN dirs ELSE dirs \cup {folder}
                      /\ files' = files \cup
                             {[dir |-> folder, name |-> ImageName(ss[i].image_result),
                               complete |-> TRUE] :
                                  i \in {j \in 1..Len(ss) : folder # 0 /\ done(j)}}
                      /\ pc' = "main_show_story"
                      /\ UNCHANGED <<err, exit_code>>
    /\ UNCHANGED <<idx, cur, nextId, allocVars, res, imageVars, args>>

\* display_story_results(story_result, verbose) and the lines after it: for a
\* generated scene in verbose mode, scene.image_result.metadata.saved_filename
\* is read, an attribute ImageMetadata does not have
DisplayStory ==
    /\ pc = "main_show_story"
    /\ IF args.verbose /\ \E i \in 1..Len(scenes) : is_generated(scenes[i])
       THEN Leave(OtherError("AttributeError"))
       ELSE /\ pc' = "main_exited"
            /\ exit_code' = <<0>>
            /\ UNCHANGED err
    /\ UNCHANGED <<opts, story_data, scenes, story_folder, idx, cur, story_result, nextId,
                   log, allocVars, fsVars, res, imageVars, args>>

\* the ImageErrors generate_image and generate_and_save raise
ServiceErrors == {"CONTENT_POLICY_ERROR", "PARSING_ERROR", "DOWNLOAD_ERROR", "SAVE_ERROR",
                  "GENERATION_FAILED"}

\* result = service.generate_and_save(args.prompt, args.save_path, options)
\* if args.save_path, else service.generate_image(args.prompt, options,
\* auto_save=not args.no_save); the call taken as one step
CallImage ==
    /\ pc = "main_image"
    /\ \/ \E e \in {OtherError("ValueError"), OtherError("KeyboardInterrupt")}
                   \cup {ImageError(c) : c \in ServiceErrors} :
             /\ Leave(e)
             /\ log' = Append(log, Event("image", 0, 0, ErrorName(e)))
             /\ UNCHANGED <<cur, nextId, files>>
       \/ LET auto == <<0, ImageName(ImageResult(TRUE, TRUE, nextId))>>
              custom == args.save_path
          IN  /\ args.save_path[1] # NoDir
              /\ nextId' = nextId + 1
              /\ log' = Append(log, Event("image", 0, 0, "ok"))
              /\ cur' = IF custom # NoPath
                        THEN [ImageResult(TRUE, TRUE, nextId) EXCEPT !.file_path = custom]
                        ELSE IF ~args.no_save
                        THEN [ImageResult(TRUE, TRUE, nextId) EXCEPT !.file_path = auto]
                        ELSE ImageResult(TRUE, FALSE, nextId)
              /\ files' = IF custom # NoPath
                          THEN WriteFile(WriteFile(files, auto[1], auto[2], TRUE),
                                         custom[1], custom[2], TRUE)
                          ELSE IF ~args.no_save
                          THEN WriteFile(files, auto[1], auto[2], TRUE)
                          ELSE files
              /\ pc' = "main_show_image"
              /\ UNCHANGED <<err, exit_code>>
    /\ UNCHANGED <<opts, story_data, scenes, story_folder, idx, story_result,
                   allocVars, dirs, res, imageVars, args>>

\* display_results(result, verbose=args.verbose) and the lines after it; return 0
DisplayImage ==
    /\ pc = "main_show_image"
    /\ pc' = "main_exited"
    /\ exit_code' = <<0>>
    /\ UNCHANGED <<opts, story_data, scenes, story_folder, idx, cur, err, story_result,
                   nextId, log, allocVars, fsVars, res, imageVars, args>>

NextMain ==
    \/ ParseArguments
    \/ ValidateArguments
    \/ Setup
    \/ CallStory
    \/ DisplayStory
    \/ CallImage
    \/ DisplayImage

\* sys.exit(main()) is about to run, nothing on disk
InitMain ==
    /\ Blank
    /\ pc = "main_parse"
    /\ request = NoRequest
    /\ raw_response = NoResponse
    /\ dirs = {}
    /\ files = {}
    /\ res = <<>>

SpecMain == InitMain /\ [][NextMain]_vars

\* ------------------------------------------------------------ properties
\* what decompose_story made of the reply that was received
Decomposed == decompose_story(opts.num_scenes, story_data)

DecompositionDone == story_data # NoReply

DecompositionFailed == DecompositionDone /\ Decomposed.error # NoError

DecompositionOk == DecompositionDone /\ Decomposed.error = NoError

Logged(op, i, out) ==
    \E k \in 1..Len(log) : log[k].op = op /\ log[k].scene = i /\ log[k].out = out

Called(op) == \E k \in 1..Len(log) : log[k].op = op

ImageCalled(i) == Logged("image", i, "call")

\* C1: once decomposition has succeeded, a failing generate_image never
\* aborts the run: a run raises only before its first image call, and a
\* returned StoryResult holds every decomposed scene, every scene's image
\* generation was attempted, and a scene is completed exactly when its own
\* generate_image call returned.
C1_SceneFailureNeverAborts ==
    /\ pc = "raised" => ~Called("image")
    /\ pc = "returned" =>
          LET r == story_result[1]
          IN  /\ Len(r.scenes) = Len(Decomposed.scenes)
              /\ \A i \in 1..Len(r.scenes) :
                    /\ ImageCalled(i)
                    /\ is_generated(r.scenes[i]) <=> Logged("image_end", i, "ok")
                    /\ ~is_generated(r.scenes[i]) <=>
                           \/ Logged("image_end", i, "ValueError")
                           \/ Logged("image_end", i, "ImageError")

\* C1 witness: a returned run whose first scene failed and whose second
\* scene was still generated
C1_Witness ==
    /\ pc = "returned"
    /\ Len(scenes) = 2
    /\ Logged("image_end", 1, "ImageError")
    /\ is_generated(story_result[1].scenes[2])

\* C2: a failed decomposition aborts the run: nothing is returned, an
\* ImageError is re-raised with its own code, any other failure is raised as
\* STORY_GENERATION_ERROR, no folder is allocated and no image or narration
\* call is made.
C2_DecompositionFailureAborts ==
    DecompositionFailed =>
        /\ pc = "raised"
        /\ story_result = <<>>
        /\ Decomposed.error.type = "ImageError" => err = Decomposed.error
        /\ Decomposed.error.type # "ImageError" =>
               err.type = "ImageError" /\ err.code = "STORY_GENERATION_ERROR"
        /\ calls = 0 /\ allocated = <<>> /\ story_folder = 0
        /\ files = OldFiles(dirs)
        /\ ~Called("alloc") /\ ~Called("image") /\ ~Called("narrate")

\* C2 witness: the run was aborted by a decomposition ImageError
C2_Witness ==
    /\ DecompositionFailed
    /\ pc = "raised"
    /\ err = ImageError("STORY_PARSING_ERROR")

\* C3 (as claimed): a run whose decomposition succeeded raises no error,
\* whatever fails afterwards, story-folder allocation included.
C3_OnlyDecompositionFatal == pc = "raised" => DecompositionFailed

\* C3 (amended): a run whose decomposition succeeded raises only when the
\* story-folder allocation fails, with STORY_GENERATION_ERROR and before any
\* scene is attempted; failures of image generation, download, save,
\* narration and audio write never make it raise.
C3_OnlyDecompositionOrFolderFatal ==
    /\ pc = "raised" /\ DecompositionOk =>
          /\ opts.auto_save
          /\ apc[Caller] = "raised"
          /\ err = ImageError("STORY_GENERATION_ERROR")
          /\ ~Called("image") /\ ~Called("narrate")
    /\ Called("image") => err = NoError /\ pc # "raised"
    /\ pc = "returned" => DecompositionOk /\ Len(story_result) = 1

\* C3 witness: a run returned although a save and a narration failed
C3_Witness ==
    /\ pc = "returned"
    /\ \E i \in 1..Len(scenes) : Logged("save", i, "SAVE_ERROR")
    /\ \E i \in 1..Len(scenes) : Logged("narrate", i, "ImageError")

\* C4: when decompose_story returns, it returns exactly num_scenes scenes:
\* the first min(num_scenes, upstream length) upstream scenes in order,
\* then placeholders.
C4_ExactlyKScenes ==
    DecompositionOk =>
        /\ Len(scenes) = opts.num_scenes
        /\ \A i \in 1..Len(scenes) :
              IF i <= story_data.len
              THEN scenes[i].origin = "upstream" /\ scenes[i].src = i
              ELSE scenes[i].origin = "placeholder"

\* C4 witness: the upstream list was longer than num_scenes
C4_Witness ==
    /\ DecompositionOk
    /\ opts.num_scenes > 0
    /\ story_data.len > opts.num_scenes

\* C4 second case: the upstream list was shorter and placeholders were added
C4_WitnessPadded ==
    /\ DecompositionOk
    /\ 0 < story_data.len /\ story_data.len < opts.num_scenes

\* C5: the scenes of a returned StoryResult are the decomposed scenes in
\* decomposition order and the i-th one has scene_number i, placeholders
\* and failed scenes included; the loop never reorders or renumbers.
C5_SceneOrder ==
    /\ \A i \in 1..Len(scenes) :
          /\ scenes[i].scene_number = i
          /\ scenes[i].origin = Decomposed.scenes[i].origin
          /\ scenes[i].src = Decomposed.scenes[i].src
    /\ pc = "returned" =>
          /\ story_result[1].scenes = scenes
          /\ Len(scenes) = Len(Decomposed.scenes)

\* C5 witness: a returned story with a failed upstream scene and a placeholder
C5_Witness ==
    /\ pc = "returned"
    /\ Len(scenes) = 2
    /\ ~is_generated(scenes[1])
    /\ scenes[2].origin = "placeholder"

NarrationFailed(i) ==
    \/ Logged("narrate", i, "ImageError")
    \/ Logged("audio_write", i, "open_failed")
    \/ Logged("audio_write", i, "write_failed")

\* a narration step leaves the scene's image_result alone and stays in the loop
NarrationStepKeepsImage ==
    pc \in {"narrate", "audio"} =>
        (pc' \in {"audio", "loop"} /\ scenes'[idx].image_result = scenes[idx].image_result)

\* C6: a failure of narration synthesis or of the audio write is swallowed:
\* the scene keeps its generation_result and counts as completed, its
\* audio_file_path stays unset, and the run goes on with the next scene.
C6_NarrationFailureSwallowed ==
    /\ [](\A i \in 1..Len(scenes) :
             NarrationFailed(i) =>
                 /\ pc # "raised"
                 /\ is_generated(scenes[i])
                 /\ scenes[i].audio_file_path = NoPath
                 /\ idx > i
                 /\ pc = "returned" =>
                        /\ \E k \in 1..Len(story_result[1].completed_scenes) :
                               story_result[1].completed_scenes[k].scene_number = i
                        /\ \A j \in (i + 1)..Len(scenes) : ImageCalled(j))
    /\ [][NarrationStepKeepsImage]_vars

\* C6 witness: narration of scene 1 failed and scene 2 was generated afterwards
C6_Witness ==
    /\ pc = "returned"
    /\ Len(scenes) = 2
    /\ Logged("audio_write", 1, "write_failed")
    /\ is_generated(scenes[1])
    /\ is_generated(scenes[2])

Range(f) == {f[i] : i \in DOMAIN f}

Increasing(ss) ==
    \A k, l \in 1..Len(ss) : k < l => ss[k].scene_number < ss[l].scene_number

\* completed_scenes and failed_scenes split scenes in two, in scene order
Partition(r) ==
    /\ Len(r.completed_scenes) + Len(r.failed_scenes) = Len(r.scenes)
    /\ Range(r.completed_scenes) = {sc \in Range(r.scenes) : is_generated(sc)}
    /\ Range(r.failed_scenes) = {sc \in Range(r.scenes) : ~is_generated(sc)}
    /\ Range(r.completed_scenes) \cap Range(r.failed_scenes) = {}
    /\ Increasing(r.completed_scenes)
    /\ Increasing(r.failed_scenes)

\* b is a and at most three doubles above it
UpTo3Above(a, b) == b \in {a, FSucc(a), FSucc(FSucc(a)), FSucc(FSucc(FSucc(a)))}

Within3Ulps(a, b) == UpTo3Above(a, b) \/ UpTo3Above(b, a)

\* C7 (as claimed): completed_scenes and failed_scenes partition scenes,
\* success_rate * total = 100 * |completed_scenes| when total > 0,
\* success_rate = 0.0 on an empty list, and success_rate is 100 exactly when
\* every scene (of a non-empty list) has a generation_result.
C7_RateExact ==
    Len(res) = 2 =>
        LET r == res[2]
            total == Len(r.scenes)
            done == Len(r.completed_scenes)
        IN  /\ Partition(r)
            /\ total = 0 => r.success_rate = FZero
            /\ total > 0 => FMulInt(r.success_rate, total) = FromInt(100 * done)
            /\ total > 0 => (r.success_rate = FromInt(100) <=> done = total)

\* C7 (amended): the same, with success_rate * total equal to
\* 100 * |completed_scenes| only up to double rounding (within 3 units in
\* the last place); success_rate is still 100.0 exactly when every scene is
\* completed and 0.0 exactly when none is.
C7_RateRounded ==
    Len(res) = 2 =>
        LET r == res[2]
            total == Len(r.scenes)
            done == Len(r.completed_scenes)
        IN  /\ Partition(r)
            /\ total = 0 => r.success_rate = FZero
            /\ total > 0 => Within3Ulps(FMulInt(r.success_rate, total),
                                        FromInt(100 * done))
            /\ total > 0 => (r.success_rate = FromInt(100) <=> done = total)
            /\ total > 0 => (r.success_rate = FZero <=> done = 0)

\* C7 witness: a result of three scenes, one of them completed (33.33...%)
C7_Witness ==
    /\ Len(res) = 2
    /\ Len(res[2].scenes) = 3
    /\ Len(res[2].completed_scenes) = 1
    /\ res[2].success_rate # FZero

\* the lowest N >= 1 such that story_N is not among ds
LowestFree(ds) == CHOOSE n \in 1..(Cardinality(ds) + 1) :
                      n \notin ds /\ \A m \in 1..(n - 1) : m \in ds

Returned(p) == apc[p] \in {"done", "wrote"}

\* C8: with one caller at a time, _get_next_story_folder creates and returns
\* story_N for the smallest N >= 1 such that story_N did not exist when the
\* call started.
C8_LowestFreeFolder ==
    \A p \in Procs :
        Returned(p) =>
            /\ ret[p] = LowestFree(dirs0[p])
            /\ ret[p] \notin dirs0[p]
            /\ ret[p] \in dirs

\* C8 witness: story_2 existed and story_1 did not; story_1 was returned
C8_Witness ==
    \E p \in Procs : Returned(p) /\ dirs0[p] = {2} /\ ret[p] = 1

\* C8 second case: only story_1 existed; story_2 was returned
C8_WitnessNext ==
    \E p \in Procs : Returned(p) /\ dirs0[p] = {1} /\ ret[p] = 2

\* a step of _get_next_story_folder keeps every folder and every file
AllocStepKeepsFolders ==
    /\ dirs \subseteq dirs'
    /\ (\E p \in Procs : InFlight(p) /\ apc'[p] # apc[p]) => files' = files
    /\ \A f \in files : \E g \in files' : g.dir = f.dir /\ g.name = f.name
    /\ \A p \in Procs :
          apc[p] = "create" /\ apc'[p] = "done" => ret'[p] \notin dirs

\* C9: with serialized callers and no deletions, an allocation never returns
\* a folder that existed before the call, all folders returned are pairwise
\* distinct, and the folders and files that existed before an allocation
\* are still there after it.
C9_NeverReuses ==
    /\ [](\A i, j \in 1..Len(allocated) : i # j => allocated[i] # allocated[j])
    /\ [](\A p \in Procs : Returned(p) => ret[p] \notin dirs0[p])
    /\ [][AllocStepKeepsFolders]_vars

\* C9 witness: three allocations on a base directory that already held a folder
C9_Witness ==
    /\ Len(allocated) = 3
    /\ \E p \in Procs : Returned(p) /\ dirs0[p] # {}
    /\ \E f \in files : f.name[1] = "old"

\* an invocation whose folder appeared between its test and its create step
\* does not fail for that reason, and returns that very folder
CreateAfterOther ==
    \A q \in Procs :
        apc[q] = "create" /\ PathExists(story_num[q]) =>
            /\ apc'[q] = "raised" => aerr'[q] = "OSError"
            /\ apc'[q] = "done" => ret'[q] = story_num[q] /\ dirs' = dirs

\* C10: two overlapping invocations can both return the same story_N:
\* whenever both passed the existence test for the same N, the one that
\* creates second does not fail on the existing folder and returns it too.
C10_RaceSameFolder ==
    /\ [](\A q \in Procs : aerr[q] # "FileExistsError")
    /\ [][CreateAfterOther]_vars

\* C10 witness: both callers were given the same folder and wrote into it
C10_Witness ==
    /\ apc[1] = "wrote" /\ apc[2] = "wrote"
    /\ ret[1] = ret[2]
    /\ \A p \in Procs : \E f \in files : f.dir = ret[1] /\ f.name = <<"image", p>>

\* an invocation that passed the existence test for a folder the other
\* invocation has created since
LostRace(q) == apc[q] = "create" /\ PathExists(story_num[q])

\* the create step of q can fail because the folder already exists
CanFailOnExisting(q) == ENABLED (AllocCreate(q) /\ aerr'[q] = "FileExistsError")

\* C11 as stated: when two invocations overlap there is an interleaving in
\* which one fails at its create step because the other created the same
\* story_N first, i.e. the invocation that lost the race can raise there.
C11_LoserCanFail ==
    \A q \in Procs : LostRace(q) => CanFailOnExisting(q)

\* C11 amended: the invocation that lost the race cannot fail on the
\* existing folder (exist_ok=True); its create step can complete and then
\* returns the folder the other invocation created.
C11_LoserNeverFailsOnExisting ==
    \A q \in Procs :
        LostRace(q) =>
            /\ ~CanFailOnExisting(q)
            /\ ENABLED (AllocCreate(q) /\ apc'[q] = "done"
                        /\ ret'[q] = story_num[q] /\ dirs' = dirs)

\* C11 witness: both passed the test for the same N, one has created and
\* returned story_N, the other is about to create it
C11_Witness ==
    \E p, q \in Procs :
        /\ p # q
        /\ LostRace(q)
        /\ Returned(p) /\ ret[p] = story_num[q]
        /\ story_num[q] \notin dirs0[q]


\* positions of the calls of op in the history of the run
Positions(op) == {k \in 1..Len(log) : log[k].op = op /\ log[k].out \in {"call", "ok"}}

\* C12: in a run with auto_save the story folder is allocated exactly once,
\* after decomposition succeeded and before the first image-generation call,
\* and every image-generation call of the run is given that folder as its
\* save directory.
C12_FolderAllocatedOnce ==
    opts.auto_save =>
        /\ calls <= 1
        /\ Cardinality(Positions("alloc")) <= 1
        /\ \A a \in Positions("alloc") :
              \E d \in Positions("decompose") : d < a /\ log[d].out = "ok"
        /\ \A k \in Positions("image") :
              /\ Cardinality(Positions("alloc")) = 1
              /\ calls = 1
              /\ \A a \in Positions("alloc") : a < k
              /\ Returned(Caller)
              /\ allocated = <<ret[Caller]>>
              /\ log[k].dir = ret[Caller]
              /\ log[k].dir = story_folder
              /\ log[k].dir \in dirs
        /\ pc = "returned" => Cardinality(Positions("alloc")) = 1

\* C12 witness: a returned run with auto_save whose two scenes were both
\* sent to story_2, allocated next to an existing story_1
C12_Witness ==
    /\ pc = "returned"
    /\ opts.auto_save
    /\ story_folder = 2
    /\ Cardinality(Positions("image")) = 2
    /\ \A k \in Positions("image") : log[k].dir = 2


\* the steps of the image part and of the narration part of a scene
ImageOps == {"image", "download", "save", "image_end"}

NarrationOps == {"narrate", "audio_write"}

\* C13: scenes are processed one at a time in scene order: every step of
\* scene i is over before any step of scene i+1 starts, the scene in
\* progress is the only one with an unfinished step, and the narration of a
\* scene starts only after that scene's image step has ended (successfully).
C13_StrictlySequential ==
    /\ \A k, l \in 1..Len(log) :
          k < l /\ log[k].scene > 0 => log[k].scene <= log[l].scene
    /\ \A k, l \in 1..Len(log) :
          /\ k < l
          /\ log[k].scene = log[l].scene
          /\ log[k].op \in NarrationOps
          => log[l].op \in NarrationOps
    /\ \A k \in 1..Len(log) :
          log[k].op \in NarrationOps =>
              \E j \in 1..(k - 1) :
                  /\ log[j].op = "image_end"
                  /\ log[j].scene = log[k].scene
                  /\ log[j].out = "ok"
    /\ \A k \in 1..Len(log) :
          log[k].scene > 0 =>
              /\ log[k].scene <= idx
              /\ log[k].scene = idx =>
                     pc \in {"download", "save", "narrate", "audio"}
    /\ pc \in {"download", "save"} => ~Logged("image_end", idx, "ok")
    /\ pc \in {"narrate", "audio"} =>
          /\ cur = NoResult
          /\ idx \in 1..Len(scenes)
          /\ is_generated(scenes[idx])

\* C13 witness: a returned run of two scenes, each downloaded, saved,
\* narrated and written to an audio file
C13_Witness ==
    /\ pc = "returned"
    /\ \A i \in 1..2 :
          /\ Logged("download", i, "ok")
          /\ Logged("save", i, "ok")
          /\ Logged("narrate", i, "ok")
          /\ Logged("audio_write", i, "ok")


\* the number of generate_image calls made for scene i
ImageCalls(i) == Cardinality({k \in 1..Len(log) : log[k].op = "image" /\ log[k].scene = i})

ImageFailed(i) ==
    \/ Logged("image_end", i, "ValueError")
    \/ Logged("image_end", i, "ImageError")

\* a step never replaces or clears an image_result that is set, and never
\* sets one on a scene whose image generation has failed
ImageResultIsFinal ==
    \A i \in 1..Len(scenes) :
        /\ is_generated(scenes[i]) =>
               /\ i <= Len(scenes')
               /\ scenes'[i].image_result = scenes[i].image_result
        /\ ImageFailed(i) =>
               /\ i <= Len(scenes')
               /\ ~is_generated(scenes'[i])

\* C14: in one run generate_image is called exactly once per scene, whether
\* it succeeds or fails; a scene whose image generation failed is not
\* retried and has no image_result when the run returns, and an
\* image_result that is set is never replaced or cleared.
C14_OneAttemptPerScene ==
    /\ [](\A i \in 1..Len(scenes) :
             /\ ImageCalls(i) <= 1
             /\ i < idx => ImageCalls(i) = 1
             /\ ImageFailed(i) => ~is_generated(scenes[i]) /\ idx > i
             /\ is_generated(scenes[i]) => Logged("image_end", i, "ok")
             /\ pc = "returned" =>
                    /\ ImageCalls(i) = 1
                    /\ story_result[1].scenes[i].image_result = scenes[i].image_result)
    /\ [][ImageResultIsFinal]_vars

\* C14 witness: a returned run whose first scene failed once and stayed
\* failed while the second scene was generated
C14_Witness ==
    /\ pc = "returned"
    /\ Len(scenes) = 2
    /\ ImageFailed(1) /\ ImageCalls(1) = 1
    /\ ~is_generated(story_result[1].scenes[1])
    /\ is_generated(story_result[1].scenes[2]) /\ ImageCalls(2) = 1


\* what the claim calls an invalid prompt, stated on the characters of P
IsEmpty(p) == Len(p) = 0

WhitespaceOnly(p) == Len(p) > 0 /\ \A i \in 1..Len(p) : p[i] \in Whitespace

ContainsIgnoringCase(p, term) ==
    \E i \in 1..Len(p) :
        /\ i + Len(term) - 1 <= Len(p)
        /\ \A j \in 1..Len(term) :
              \/ p[i + j - 1] = term[j]
              \/ p[i + j - 1] = upper_char(term[j])

Denylisted(p) == \E term \in problematic_terms : ContainsIgnoringCase(p, term)

Validated == \E k \in 1..Len(log) : log[k].op = "validate"

Accepted == Logged("validate", 0, "True")

\* C15: validate_prompt(P) is false for every P that is empty, whitespace
\* only, longer than 4000 characters or that contains a denylisted term in
\* any letter case, and true for every other P; a prompt of exactly 4000
\* characters is accepted.
C15_ValidatePrompt ==
    Validated =>
        LET p == request.prompt
        IN  /\ IsEmpty(p) => ~Accepted
            /\ WhitespaceOnly(p) => ~Accepted
            /\ Len(p) > 4000 => ~Accepted
            /\ Denylisted(p) => ~Accepted
            /\ ~(IsEmpty(p) \/ WhitespaceOnly(p) \/ Len(p) > 4000 \/ Denylisted(p))
                   => Accepted
            /\ Accepted <=> pc = "img_client"
            /\ ~Accepted <=> (pc = "img_raised" /\ err = OtherError("ValueError"))

\* C15 witness: a prompt of exactly 4000 characters was accepted
C15_Witness ==
    /\ Validated /\ Accepted
    /\ Len(request.prompt) = 4000

\* C15 second case: a prompt was rejected for a term in mixed case only
C15_WitnessMixedCase ==
    /\ Validated /\ ~Accepted
    /\ Denylisted(request.prompt)
    /\ ~\E term \in problematic_terms : Contains(request.prompt, term)
    /\ Len(request.prompt) <= 4000


InvalidPrompt(p) == IsEmpty(p) \/ WhitespaceOnly(p) \/ Len(p) > 4000 \/ Denylisted(p)

\* the step that validates an invalid prompt ends the call and leaves the
\* file system and the parser alone
RejectionStepIsLocal ==
    pc = "img_validate" /\ InvalidPrompt(request.prompt) =>
        /\ pc' = "img_raised"
        /\ files' = files /\ dirs' = dirs
        /\ issued' = issued /\ raw_response' = raw_response

\* C16: generate_image rejects an invalid prompt (empty, whitespace only,
\* too long, denylisted) before any remote call: the call fails with the
\* validation error (ValueError), the image endpoint is not called, nothing
\* is downloaded and no file is written for that request.
C16_RejectedBeforeRemoteCall ==
    /\ [](pc \in {"img_client", "img_parse", "img_download", "img_save", "gs_download",
                  "gs_save", "img_returned", "img_raised"}
          /\ InvalidPrompt(request.prompt) =>
              /\ pc = "img_raised"
              /\ err = OtherError("ValueError")
              /\ log = <<Event("validate", 0, request.save_dir, "False")>>
              /\ ~Called("client") /\ ~Called("parse")
              /\ ~Called("download") /\ ~Called("save")
              /\ raw_response = NoResponse
              /\ cur = NoResult)
    /\ [][RejectionStepIsLocal]_vars

\* C16 witness: a second request, denylisted, was rejected after a first
\* request had saved its image
C16_Witness ==
    /\ requests = 2
    /\ pc = "img_raised"
    /\ Denylisted(request.prompt)
    /\ err = OtherError("ValueError")
    /\ \E f \in files : f.name[1] = "image"

\* what parse made of the response: the outcome it logged
ParseDone == Called("parse")

ParseReturned == Logged("parse", 0, "ok")

\* the response shapes the claim lists as structurally invalid
Undecodable(v) == v \in {"bad_padding", "non_alphabet", "non_ascii", "not_str"}

StructurallyInvalid(r) ==
    \/ r.type # "dict"
    \/ ~r.has_data
    \/ r.data.type # "list"
    \/ r.data.len = 0
    \/ r.data.first.type # "dict"
    \/ ~Truthy(r.data.first.url) /\ ~Truthy(r.data.first.b64_json)
    \/ Undecodable(r.data.first.b64_json)

\* C17 as stated: parse either returns a complete result holding a URL or a
\* payload, or fails with PARSING_ERROR; every structurally invalid response
\* fails with PARSING_ERROR and leaves no partial result.
C17_ResultOrParsingError ==
    ParseDone =>
        /\ \/ /\ ParseReturned
              /\ pc = "img_returned"
              /\ cur # NoResult
              /\ cur.image_url \/ cur.image_data
              /\ cur.generation_id > 0
           \/ /\ Logged("parse", 0, "PARSING_ERROR")
              /\ pc = "img_raised"
              /\ cur = NoResult
        /\ StructurallyInvalid(raw_response) => Logged("parse", 0, "PARSING_ERROR")

\* a response whose structure parse accepts, whatever its "created" value
WellFormed(r) ==
    /\ r.type = "dict" /\ r.has_data
    /\ r.data.type = "list" /\ r.data.len > 0
    /\ r.data.first.type = "dict"
    /\ Truthy(r.data.first.url) \/ Truthy(r.data.first.b64_json)
    /\ ~Undecodable(r.data.first.b64_json)

\* C18 as stated: timestamp parsing never raises: whatever the "created"
\* value of an otherwise well-formed response, parse returns a result.
C18_TimestampNeverRaises ==
    ParseDone /\ WellFormed(raw_response) =>
        /\ ParseReturned
        /\ pc = "img_returned"
        /\ cur # NoResult

\* C19 as stated: the generation ids of the results the parser produced are
\* pairwise distinct, and the result in progress still carries the id the
\* parser gave it.
C19_IdsUnique ==
    /\ \A i, j \in 1..Len(issued) : i # j => issued[i] # issued[j]
    /\ cur # NoResult => Len(issued) > 0 /\ cur.generation_id = issued[Len(issued)]

\* the file a path names
FileAt(path) == {f \in files : f.dir = path[1] /\ f.name = path[2]}

\* file_path is assigned only by the step that completes the write
FilePathSetBySave ==
    cur'.file_path # cur.file_path /\ cur'.file_path # NoPath =>
        /\ pc \in {"img_save", "gs_save"} /\ pc' \in {"img_returned", "gs_download"}
        /\ cur.image_data /\ cur'.image_data
        /\ \E f \in files' :
              f.dir = cur'.file_path[1] /\ f.name = cur'.file_path[2] /\ f.complete

\* the download or the save failed
SaveOrDownloadFailed ==
    /\ pc = "img_raised"
    /\ err.type = "ImageError"
    /\ err.code \in {"DOWNLOAD_ERROR", "SAVE_ERROR"}

\* C20 as stated: a result with a file_path has image_data and a file at
\* that path, and after a DOWNLOAD_ERROR or SAVE_ERROR file_path is unset.
C20_FilePathOnlyAfterSave ==
    /\ cur.file_path # NoPath =>
          /\ cur.image_data
          /\ \E f \in FileAt(cur.file_path) : f.complete
    /\ SaveOrDownloadFailed => cur.file_path = NoPath

\* C20 amended: file_path is set only after the image bytes were downloaded
\* and fully written to that path: a result with a file_path has image_data
\* and its file is on disk, only the step that completes a write assigns
\* file_path, and a download or save that fails leaves file_path as it was:
\* unset in generate_image, the path of the first save in the second
\* download_and_save_image call of generate_and_save.
C20_FilePathSetOnlyBySave ==
    /\ [](cur.file_path # NoPath =>
              /\ cur.image_data
              /\ \E f \in FileAt(cur.file_path) : f.complete
              /\ Logged("download", 0, "ok") /\ Logged("save", 0, "ok"))
    /\ [](SaveOrDownloadFailed =>
              \/ cur.file_path = NoPath
              \/ /\ request.save_path # NoPath
                 /\ cur.file_path = <<request.save_dir, ImageName(cur)>>
                 /\ cur.file_path # request.save_path)
    /\ [](pc \in {"img_download", "img_save"} => cur.file_path = NoPath)
    /\ [][FilePathSetBySave]_vars
    /\ [][SaveOrDownloadFailed' /\ ~SaveOrDownloadFailed
              => cur'.file_path = cur.file_path]_vars

\* C20 witness: the write failed half way: SAVE_ERROR, a partial file on
\* disk, image_data kept and file_path unset
C20_Witness ==
    /\ pc = "img_raised"
    /\ err = ImageError("SAVE_ERROR")
    /\ Logged("save", 0, "write_failed")
    /\ cur.image_data
    /\ cur.file_path = NoPath
    /\ \E f \in files : f.name = ImageName(cur) /\ ~f.complete

\* C20 second case: the image was saved and the result returned with its path
C20_WitnessSaved ==
    /\ pc = "img_returned"
    /\ cur.file_path # NoPath
    /\ \E f \in FileAt(cur.file_path) : f.complete

\* C21: decompose_story fails only with a DomainError: STORY_PARSING_ERROR
\* when the reply is malformed JSON, STORY_DECOMPOSITION_ERROR for every
\* other failure, a failure of the chat-completion call included; no other
\* error type escapes it.
C21_DecomposeFailsWithDomainError ==
    DecompositionFailed =>
        /\ Decomposed.error.type = "ImageError"
        /\ story_data.kind = "bad_json" => Decomposed.error.code = "STORY_PARSING_ERROR"
        /\ story_data.kind # "bad_json" =>
               Decomposed.error.code = "STORY_DECOMPOSITION_ERROR"

\* the text of the error mentions content policy or safety, in any case
MentionsPolicy(text) ==
    \/ ContainsIgnoringCase(text, <<"c", "o", "n", "t", "e", "n", "t", " ",
                                    "p", "o", "l", "i", "c", "y">>)
    \/ ContainsIgnoringCase(text, <<"s", "a", "f", "e", "t", "y">>)

\* the call to the provider raised one of the provider's errors
ProviderFailed == api_error # NoFailure /\ IsAPIError(api_error.class)

\* C22: client generate_image translates every provider failure into exactly
\* one domain error code: authentication failure -> AUTHENTICATION_ERROR,
\* rate limit -> RATE_LIMIT_ERROR, an API error whose text mentions content
\* policy or safety -> CONTENT_POLICY_ERROR, any other API error -> API_ERROR;
\* the specific kinds win over API_ERROR whatever their text says.
C22_ProviderFailureTranslated ==
    ProviderFailed =>
        /\ pc = "img_raised"
        /\ err.type = "ImageError"
        /\ err.code = CASE api_error.class = "AuthenticationError" -> "AUTHENTICATION_ERROR"
                        [] api_error.class = "RateLimitError" -> "RATE_LIMIT_ERROR"
                        [] OTHER -> IF MentionsPolicy(api_error.text)
                                    THEN "CONTENT_POLICY_ERROR" ELSE "API_ERROR"
        /\ Logged("client", 0, err.code)

\* C22 witness: an authentication failure whose text mentions safety is
\* reported as AUTHENTICATION_ERROR
C22_Witness ==
    /\ api_error.class = "AuthenticationError"
    /\ MentionsPolicy(api_error.text)
    /\ err = ImageError("AUTHENTICATION_ERROR")

\* C22 second case: another API error with the marker in capitals
C22_WitnessPolicy ==
    /\ api_error.class = "BadRequestError"
    /\ api_error.text[1] = "C"
    /\ err = ImageError("CONTENT_POLICY_ERROR")

\* the service call of main returned a result
GenerationReturned == story_result # <<>> \/ cur # NoResult

\* C23: for a command line argparse accepts, main returns 0 exactly when the
\* requested generation finished without an error reaching main, 1 on every
\* validation or generation error, 130 on user cancellation, and no other
\* code; a successful generation never yields a non-zero code.
C23_ExitCodes ==
    (args # NoArgs /\ exit_code # <<>>) =>
        /\ exit_code[1] \in {0, 1, 130}
        /\ exit_code[1] = 0 <=> GenerationReturned
        /\ err.type \in {"ImageError", "ValueError"} => exit_code[1] = 1
        /\ err.type = "KeyboardInterrupt" <=> exit_code[1] = 130

\* C24: in story mode a --scenes value outside 1..10 (0, negative, or
\* greater than 10) never reaches decomposition or image generation.
C24_SceneCountRestricted ==
    (args # NoArgs /\ args.story /\ args.scenes \notin 1..10) =>
        /\ ~Called("decompose")
        /\ ~Called("image")

\* [a-z0-9_.-]
SafeChars ==
    {LowerCase[i] : i \in 1..Len(LowerCase)} \cup {Digits[i] : i \in 1..Len(Digits)}
        \cup {"_", ".", "-"}

EndsWith(text, tail) ==
    /\ Len(text) >= Len(tail)
    /\ SubSeq(text, Len(text) - Len(tail) + 1, Len(text)) = tail

\* the name was built
Named == pc = "img_named"

\* what follows the prompt-derived part: _YYYYMMDD_HHMMSS_<generation_id>.png
NameTailLength == 1 + 15 + 1 + Len(GenerationId(cur.generation_id)) + 4

\* C25: for every prompt and generation_id the name ends with
\* _<generation_id>.png, its prompt-derived part is at most 50 characters,
\* it contains no path separator, and all its characters are in [a-z0-9_.-].
C25_SafeFilename ==
    Named =>
        /\ EndsWith(safe_filename, <<"_">> \o GenerationId(cur.generation_id)
                                       \o <<".", "p", "n", "g">>)
        /\ Len(safe_filename) - NameTailLength <= 50
        /\ \A i \in 1..Len(safe_filename) : safe_filename[i] \notin {"/", "\\"}
        /\ \A i \in 1..Len(safe_filename) : safe_filename[i] \in SafeChars

\* narration was requested for scene i
Narrated(i) == \E k \in 1..Len(log) : log[k].op = "narrate" /\ log[k].scene = i

AudioFiles == {f \in files : f.name[1] = "audio"}

\* C26: a scene has audio_path set only if narration was enabled, auto_save
\* was enabled and the scene has a generation_result; narration is never
\* attempted for a scene whose image generation failed; with auto_save
\* disabled the synthesized audio is discarded: nothing is written and no
\* audio_path is set.
C26_AudioPathOnlyAfterNarration ==
    /\ \A i \in 1..Len(scenes) :
          /\ scenes[i].audio_file_path # NoPath =>
                /\ opts.enable_narration
                /\ opts.auto_save
                /\ is_generated(scenes[i])
          /\ Narrated(i) =>
                /\ opts.enable_narration
                /\ is_generated(scenes[i])
                /\ ~ImageFailed(i)
    /\ ~opts.auto_save =>
          /\ ~Called("audio_write")
          /\ AudioFiles = {}
          /\ \A i \in 1..Len(scenes) : scenes[i].audio_file_path = NoPath

\* C26 witness: a finished run with narration and auto_save in which one
\* scene failed and was not narrated and another has its audio_path
C26_Witness ==
    /\ pc = "returned"
    /\ opts.enable_narration
    /\ opts.auto_save
    /\ \E i, j \in 1..Len(scenes) :
          /\ ~is_generated(scenes[i])
          /\ ~Narrated(i)
          /\ scenes[j].audio_file_path # NoPath
          /\ Logged("audio_write", j, "ok")

\* C26 second case: auto_save disabled, the narration was synthesized and
\* discarded
C26_WitnessDiscarded ==
    /\ pc = "returned"
    /\ ~opts.auto_save
    /\ \E i \in 1..Len(scenes) :
          /\ Logged("narrate", i, "ok")
          /\ scenes[i].audio_file_path = NoPath

\* a generate_story call with auto_save disabled is under way or has ended
RunWithoutAutoSave == pc # "idle" /\ ~opts.auto_save

\* C27: a story run with auto_save disabled leaves the filesystem unchanged:
\* no story folder is allocated, no image is downloaded, no image or audio
\* file is written, and every completed scene's result has local_path unset.
C27_NoAutoSaveNoFilesystemChange ==
    /\ [](RunWithoutAutoSave =>
            /\ story_folder = 0
            /\ ~Called("alloc")
            /\ ~Called("download")
            /\ ~Called("save")
            /\ ~Called("audio_write")
            /\ files = OldFiles(dirs)
            /\ \A i \in 1..Len(scenes) :
                  /\ scenes[i].image_result.file_path = NoPath
                  /\ scenes[i].audio_file_path = NoPath)
    /\ [][RunWithoutAutoSave => UNCHANGED fsVars]_vars

\* C27 witness: a finished run without auto_save, on a base directory that
\* holds a story folder, with a completed scene that has a URL and a
\* narration that was synthesized
C27_Witness ==
    /\ pc = "returned"
    /\ ~opts.auto_save
    /\ dirs # {}
    /\ \E i \in 1..Len(scenes) :
          /\ scenes[i].image_result.image_url
          /\ Logged("narrate", i, "ok")

\* C20 amended case: the second save of generate_and_save failed after the
\* first one had completed: the result keeps the path of the first save
C20_WitnessKept ==
    /\ request.save_path # NoPath
    /\ pc = "img_raised"
    /\ err = ImageError("SAVE_ERROR")
    /\ Logged("save", 0, "ok")
    /\ cur.file_path = <<0, ImageName(cur)>>
    /\ \E f \in FileAt(cur.file_path) : f.complete
    /\ ~\E f \in FileAt(request.save_path) : f.complete

\* parse returned a result for a response that carries a base64 payload and
\* no URL
Base64Only == ParseReturned /\ ~Truthy(raw_response.data.first.url)

\* C28: a response that carries only a base64 payload is never saved to
\* disk: generate_image, also with auto_save, returns it with file_path
\* unset, without a download or a save and with no file written, and
\* generate_and_save fails on it with DOWNLOAD_ERROR while the result holds
\* the image bytes.
C28_Base64OnlyNeverSaved ==
    /\ [](Base64Only =>
              /\ cur.image_data /\ ~cur.image_url
              /\ cur.file_path = NoPath
              /\ ~Called("save") /\ ~Logged("download", 0, "ok")
              /\ request.save_path = NoPath =>
                    pc = "img_returned" /\ err = NoError /\ ~Called("download")
              /\ request.save_path # NoPath =>
                    \/ pc = "gs_download" /\ err = NoError
                    \/ pc = "img_raised" /\ err = ImageError("DOWNLOAD_ERROR"))
    /\ [][Base64Only' => UNCHANGED fsVars]_vars

\* C28 witness: generate_and_save failed on a base64-only response, the
\* bytes being in the result
C28_Witness ==
    /\ Base64Only
    /\ request.save_path # NoPath
    /\ pc = "img_raised"
    /\ err = ImageError("DOWNLOAD_ERROR")
    /\ cur.image_data
    /\ files = {}

\* C28 second case: generate_image with auto_save returned the result unsaved
C28_WitnessAutoSave ==
    /\ Base64Only
    /\ request.save_path = NoPath /\ request.auto_save
    /\ pc = "img_returned"
    /\ cur.image_data /\ cur.file_path = NoPath
    /\ files = {}

\* the events of the history that belong to operation op, in order
EventsOf(op) == SelectSeq(log, LAMBDA e : e.op = op)

\* generate_and_save returned its result
SaveReturned == request.save_path # NoPath /\ pc = "img_returned"

\* C29: a generate_and_save that succeeds on a URL response has downloaded
\* and saved twice, first to the auto-named file in the default directory,
\* then to save_path; it ends with file_path = save_path and both files on
\* disk; and when the first save fails the call fails without a download or
\* a write for save_path.
C29_SavesTwice ==
    /\ SaveReturned =>
          /\ cur.image_url
          /\ request.auto_save /\ request.save_dir = 0
          /\ EventsOf("download") =
                <<Event("download", 0, 0, "ok"),
                  Event("download", 0, request.save_path[1], "ok")>>
          /\ EventsOf("save") =
                <<Event("save", 0, 0, "ok"),
                  Event("save", 0, request.save_path[1], "ok")>>
          /\ cur.file_path = request.save_path
          /\ \E f \in FileAt(<<0, ImageName(cur)>>) : f.complete
          /\ \E f \in FileAt(request.save_path) : f.complete
          /\ <<0, ImageName(cur)>> # request.save_path
    /\ /\ request.save_path # NoPath
       /\ \E e \in {"open_failed", "write_failed"} : Logged("save", 0, e)
       /\ ~Logged("save", 0, "ok")
       => /\ pc = "img_raised"
          /\ err = ImageError("SAVE_ERROR")
          /\ Len(EventsOf("download")) = 1 /\ Len(EventsOf("save")) = 1
          /\ \A e \in {"download", "save"} : EventsOf(e)[1].dir = 0

\* C29 witness: generate_and_save returned, two files on disk
C29_Witness ==
    /\ SaveReturned
    /\ cur.file_path = request.save_path
    /\ Cardinality({f \in files : f.complete}) = 2

\* C29 second case: the first save failed, save_path was never written
C29_WitnessFirstFailed ==
    /\ request.save_path # NoPath
    /\ pc = "img_raised"
    /\ err = ImageError("SAVE_ERROR")
    /\ ~Logged("save", 0, "ok")
    /\ FileAt(request.save_path) = {}

\* download_and_save_image raised SAVE_ERROR / DOWNLOAD_ERROR
SaveFailed == pc = "img_raised" /\ err = ImageError("SAVE_ERROR")

DownloadFailed == pc = "img_raised" /\ err = ImageError("DOWNLOAD_ERROR")

\* the result as parse returned it, before any download
AsParsed ==
    ImageResult(Truthy(raw_response.data.first.url),
                Truthy(raw_response.data.first.b64_json), cur.generation_id)

\* C30 as stated: after a SAVE_ERROR the result holds the downloaded bytes
\* and is not saved (downloaded = true, saved = false); after a
\* DOWNLOAD_ERROR image_data and file_path are what they were.
C30_SaveFailureLeavesUnsaved ==
    /\ SaveFailed => cur.image_data /\ cur.file_path = NoPath
    /\ DownloadFailed /\ ~Logged("download", 0, "ok") => cur = AsParsed

\* C30 amended: when the download succeeds and the write fails (SAVE_ERROR)
\* the result keeps the downloaded bytes and the file_path it had before the
\* call: None for a result not saved before, the path of the first save in
\* the second download_and_save_image call of generate_and_save; on
\* DOWNLOAD_ERROR the result is unchanged.
C30_SaveFailureKeepsPayload ==
    /\ [](SaveFailed =>
              /\ cur.image_data
              /\ Logged("download", 0, "ok")
              /\ \/ cur.file_path = NoPath /\ ~Logged("save", 0, "ok")
                 \/ /\ request.save_path # NoPath
                    /\ Logged("save", 0, "ok")
                    /\ cur.file_path = <<0, ImageName(cur)>>)
    /\ [](DownloadFailed /\ ~Logged("download", 0, "ok") => cur = AsParsed)
    /\ [][SaveFailed' /\ ~SaveFailed
              => cur'.image_data /\ cur'.file_path = cur.file_path]_vars
    /\ [][DownloadFailed' /\ ~DownloadFailed => cur' = cur]_vars

\* C30 witness: the write failed for a response that carried a URL only:
\* the result differs from what parse returned by the downloaded bytes
C30_Witness ==
    /\ SaveFailed
    /\ ~Truthy(raw_response.data.first.b64_json)
    /\ cur.image_data
    /\ cur # AsParsed
    /\ cur.file_path = NoPath

\* C30 second case: SAVE_ERROR in the second call, on a result saved before
C30_WitnessSavedBefore ==
    /\ SaveFailed
    /\ Logged("save", 0, "ok")
    /\ cur.file_path # NoPath /\ cur.file_path # request.save_path
    /\ Logged("save", 0, "write_failed")

====
